---------------------------- MODULE Spec2Model ----------------------------
(***************************************************************************)
(* Model of the vulnerability pipeline of meta-classificador:             *)
(*   - src/src/preprocessamento.py  (tratar_dados_faltantes,               *)
(*     gerar_features_vulnerabilidade, preparar_dados_para_ml)             *)
(*   - src/src/adaptar_dados_reais.py (AdaptadorDadosReais)                *)
(*   - src/src/mapeador_governo.py  (detectar_formato_arquivo)             *)
(*                                                                         *)
(* A DataFrame is a record [cols, rows]: cols is the set of column names,  *)
(* rows a sequence of functions from cols to cell values.  Integer columns *)
(* hold integers; float64 columns hold tagged values (Fin(v), NaN, PosInf, *)
(* NegInf) so that IEEE division by zero and NaN propagation are kept.     *)
(* Fixed point: a z-score is held in units of 1/ZScale, a score in units   *)
(* of 1/(100*ZScale).                                                      *)
(***************************************************************************)
EXTENDS Integers, Sequences, FiniteSets, TLC

VARIABLES
    pc,                 \* position of the driver of the component under check
    df,                 \* input table of gerar_features_vulnerabilidade
    df_bolsa_familia,   \* second argument: "None" or the Bolsa Familia table
    df_features,        \* result of gerar_features_vulnerabilidade(df)
    df_rerun,           \* result of applying it again to df_features
    Xy,                 \* result of preparar_dados_para_ml(df_features)
    tabela,             \* input table of tratar_dados_faltantes
    estrategia,         \* its strategy argument
    df_tratado,         \* what tratar_dados_faltantes returned
    df_retratado,       \* what it returned when applied again to df_tratado
    arquivo,            \* the file given to detectar_formato_arquivo
    config_idx,         \* position of its loop over configs (1-based)
    info,               \* the dict it returned
    carregado,          \* what carregar_e_mapear_arquivo returned for the file
    df_original,        \* a raw CadUnico family table, as read from the file
    df_mapped,          \* what a mapper of the family layout made of it
    df_fam,             \* the raw family file of the adapter
    df_pes,             \* the raw person file
    chunk_size,         \* chunk_size of processar_completo_chunks
    pos,                \* families consumed by its loop
    df_juncao,          \* what a join of families and reference persons returned
    df_final,           \* what processar_amostra returned for the whole file
    df_chunks,          \* the df_chunk of every iteration so far
    saida,              \* the lines of the output CSV file
    lote,               \* a column of per-capita incomes, as binary floats
    lote_norm,          \* its normalisation (x - mean()) / std()
    lote_score,         \* the scores computed from the normalised incomes
    modelo,             \* self.modelo of each ModeloVulnerabilidade object
    scaler,             \* self.scaler of each object
    disco,              \* the model file on disk: whether it exists, and its modelo_data
    concluiu,           \* per object: a treinar or carregar_modelo call has completed
    resposta,           \* outcome of the last method call
    rf_model,           \* global rf_model of the API module
    xgb_model,          \* global xgb_model
    feature_names,      \* global feature_names
    meta_classificador, \* global meta_classificador
    iniciado,           \* whether startup_event has run, and how it ended
    api_resposta        \* the answer to the last request

vars == <<pc, df, df_bolsa_familia, df_features, df_rerun, Xy,
          tabela, estrategia, df_tratado, df_retratado, arquivo, config_idx, info, carregado,
          df_original, df_mapped,
          df_fam, df_pes, chunk_size, pos, df_juncao, df_final, df_chunks, saida,
          lote, lote_norm, lote_score,
          modelo, scaler, disco, concluiu, resposta,
          rf_model, xgb_model, feature_names, meta_classificador, iniciado,
          api_resposta>>

featureVars == <<df, df_bolsa_familia, df_features, df_rerun, Xy>>
missingVars == <<tabela, estrategia, df_tratado, df_retratado>>
detectVars == <<arquivo, config_idx, info, carregado>>
mapperVars == <<df_original, df_mapped>>
adaptVars == <<df_fam, df_pes, chunk_size, pos, df_juncao, df_final, df_chunks, saida>>
govVars == <<mapperVars, adaptVars>>
floatVars == <<lote, lote_norm, lote_score>>
modeloVars == <<modelo, scaler, disco, concluiu, resposta>>
apiVars == <<rf_model, xgb_model, feature_names, meta_classificador, iniciado,
            api_resposta>>
servVars == <<floatVars, modeloVars, apiVars>>

-----------------------------------------------------------------------------
(* Bounds of the model *)

\* largest number of rows of a table without precomputed columns
MaxRows == 3
\* largest number of rows of a table that carries precomputed columns
MaxPreRows == 2
\* largest number of rows of a table given to tratar_dados_faltantes
MaxMissRows == 3
\* largest number of data lines of a file given to detectar_formato_arquivo
MaxDataLines == 3
\* fixed-point resolution of a z-score (units per 1.0)
ZScale == 100

-----------------------------------------------------------------------------
(* float64 values *)

Fin(v) == [t |-> "fin", v |-> v]
NaN == [t |-> "nan", v |-> 0]
PosInf == [t |-> "inf", v |-> 1]
NegInf == [t |-> "inf", v |-> -1]

IsFinite(x) == x.t = "fin"
IsNull(x) == x.t = "nan"

\* the null of a categorical / object column
NullLabel == "NaN"

\* True division of two integer cells, as numpy does it: x/0 is +-inf, 0/0 is nan.
TrueDiv(a, b) ==
    IF b = 0
    THEN IF a = 0 THEN NaN ELSE IF a > 0 THEN PosInf ELSE NegInf
    ELSE Fin(a \div b)

RECURSIVE SumSeq(_)
SumSeq(s) == IF s = <<>> THEN 0 ELSE Head(s) + SumSeq(Tail(s))

RECURSIVE ISqrtIn(_, _, _)
ISqrtIn(v, lo, hi) ==
    IF lo >= hi THEN lo
    ELSE LET mid == (lo + hi + 1) \div 2
         IN  IF mid * mid <= v THEN ISqrtIn(v, mid, hi) ELSE ISqrtIn(v, lo, mid - 1)

\* floor of the square root
ISqrt(v) == ISqrtIn(v, 0, 40000)

-----------------------------------------------------------------------------
(* DataFrame helpers *)

NRows(t) == Len(t.rows)

Column(t, c) == [i \in DOMAIN t.rows |-> t.rows[i][c]]

\* df[c] = vals : adds column c, or overwrites it
SetCol(t, c, vals) ==
    [cols |-> t.cols \cup {c},
     rows |-> [i \in DOMAIN t.rows |->
                 [k \in t.cols \cup {c} |-> IF k = c THEN vals[i] ELSE t.rows[i][k]]]]

\* df[list] : projection on a list of columns
Project(t, cs) ==
    [cols |-> cs,
     rows |-> [i \in DOMAIN t.rows |-> [k \in cs |-> t.rows[i][k]]]]

NoTable == [cols |-> {}, rows |-> <<>>]

-----------------------------------------------------------------------------
(* gerar_features_vulnerabilidade: constants *)

\* pesos, in hundredths
PesoRenda == -30
PesoIdade == 20
PesoInfra == -15
PesoEscolaridade == 15
PesoTrabalho == 20
PesoSuperlotacao == 10
PesoDeficiencia == 10

\* age limits of vulnerabilidade_idade
IdadeMin == 18
IdadeMax == 65
\* escolaridade_baixa, situacao_trabalho_precaria and superlotacao thresholds
EscolaridadeLimite == 2
TrabalhoLimite == 1
PessoasLimite == 5

\* bins of pd.cut, in hundredths
CorteBaixa == -50
CorteMedia == 0
CorteAlta == 50

Niveis == {"Baixa", "Média", "Alta", "Muito Alta"}

DerivedCols ==
    {"renda_per_capita", "vulnerabilidade_idade", "infraestrutura_adequada",
     "escolaridade_baixa", "situacao_trabalho_precaria", "superlotacao",
     "score_vulnerabilidade", "nivel_vulnerabilidade"}

CanonicalCols ==
    {"nis", "idade", "escolaridade", "renda_familiar", "qtd_pessoas_familia",
     "possui_deficiencia", "situacao_trabalho", "tipo_moradia", "acesso_agua",
     "acesso_esgoto"}

BoolInt(b) == IF b THEN 1 ELSE 0

-----------------------------------------------------------------------------
(* gerar_features_vulnerabilidade: the computations *)

\* renda_familiar / qtd_pessoas_familia, row by row (no clamp of the divisor)
RendaPerCapita(t) ==
    [i \in DOMAIN t.rows |->
        TrueDiv(t.rows[i]["renda_familiar"], t.rows[i]["qtd_pessoas_familia"])]

\* A variant of the age flag with the two limits inside the vulnerable ranges.
VulnerabilidadeIdadeInclusiva(t) ==
    [i \in DOMAIN t.rows |->
        BoolInt(t.rows[i]["idade"] <= IdadeMin \/ t.rows[i]["idade"] >= IdadeMax)]

\* ((idade < 18) | (idade > 65)).astype(int)
VulnerabilidadeIdade(t) ==
    [i \in DOMAIN t.rows |->
        BoolInt(t.rows[i]["idade"] < IdadeMin \/ t.rows[i]["idade"] > IdadeMax)]

InfraestruturaAdequada(t) ==
    [i \in DOMAIN t.rows |->
        BoolInt(t.rows[i]["acesso_agua"] = 1 /\ t.rows[i]["acesso_esgoto"] = 1)]

EscolaridadeBaixa(t) ==
    [i \in DOMAIN t.rows |-> BoolInt(t.rows[i]["escolaridade"] <= EscolaridadeLimite)]

SituacaoTrabalhoPrecaria(t) ==
    [i \in DOMAIN t.rows |-> BoolInt(t.rows[i]["situacao_trabalho"] <= TrabalhoLimite)]

Superlotacao(t) ==
    [i \in DOMAIN t.rows |-> BoolInt(t.rows[i]["qtd_pessoas_familia"] > PessoasLimite)]

\* nis of the rows of the Bolsa Familia table whose status is 'ativo'
BeneficiariosAtivos(bf) ==
    {bf.rows[j].nis : j \in {k \in DOMAIN bf.rows : bf.rows[k].status_beneficio = "ativo"}}

RecebeBolsaFamilia(t, bf) ==
    [i \in DOMAIN t.rows |->
        IF bf.present THEN BoolInt(t.rows[i]["nis"] \in BeneficiariosAtivos(bf)) ELSE 0]

\* (x - mean()) / std() over the column: pandas skips NaN cells in mean() and
\* std() (ddof = 1); an infinite cell makes the mean infinite and the std NaN.
RendaPerCapitaNorm(col) ==
    LET idx   == DOMAIN col
        fins  == {i \in idx : IsFinite(col[i])}
        infs  == {i \in idx : col[i].t = "inf"}
        m     == Cardinality(fins)
        vals  == [i \in idx |-> IF i \in fins THEN col[i].v ELSE 0]
        S     == SumSeq(vals)
        D     == [i \in idx |-> IF i \in fins THEN m * col[i].v - S ELSE 0]
        Q     == SumSeq([i \in idx |-> D[i] * D[i]])
        mag(i) == ISqrt((ZScale * ZScale * D[i] * D[i] * (m - 1)) \div Q)
    IN  [i \in idx |->
            IF infs # {} \/ i \notin fins \/ m < 2 \/ Q = 0
            THEN NaN
            ELSE Fin(IF D[i] < 0 THEN -mag(i) ELSE mag(i))]

\* A variant of the weighted sum that adds the infrastructure weight with the
\* sign of the other flags.
ScoreInfraSomada(t, norm) ==
    [i \in DOMAIN t.rows |->
        IF ~IsFinite(norm[i])
        THEN NaN
        ELSE Fin(PesoRenda * norm[i].v
                 + ZScale * (PesoIdade * t.rows[i]["vulnerabilidade_idade"]
                             - PesoInfra * t.rows[i]["infraestrutura_adequada"]
                             + PesoEscolaridade * t.rows[i]["escolaridade_baixa"]
                             + PesoTrabalho * t.rows[i]["situacao_trabalho_precaria"]
                             + PesoSuperlotacao * t.rows[i]["superlotacao"]
                             + PesoDeficiencia * t.rows[i]["possui_deficiencia"]))]

\* the weighted sum of the loop over pesos.items(); unit 1/(100*ZScale)
ScoreVulnerabilidade(t, norm) ==
    [i \in DOMAIN t.rows |->
        IF ~IsFinite(norm[i])
        THEN NaN
        ELSE Fin(PesoRenda * norm[i].v
                 + ZScale * (PesoIdade * t.rows[i]["vulnerabilidade_idade"]
                             + PesoInfra * t.rows[i]["infraestrutura_adequada"]
                             + PesoEscolaridade * t.rows[i]["escolaridade_baixa"]
                             + PesoTrabalho * t.rows[i]["situacao_trabalho_precaria"]
                             + PesoSuperlotacao * t.rows[i]["superlotacao"]
                             + PesoDeficiencia * t.rows[i]["possui_deficiencia"]))]

\* A variant of the binning with left-closed bins (right=False).
CutEsquerda(x) ==
    IF x.t = "nan" THEN NullLabel
    ELSE IF x.t = "inf" THEN (IF x.v > 0 THEN NullLabel ELSE "Baixa")
    ELSE IF x.v < CorteBaixa * ZScale THEN "Baixa"
    ELSE IF x.v < CorteMedia * ZScale THEN "Média"
    ELSE IF x.v < CorteAlta * ZScale THEN "Alta"
    ELSE "Muito Alta"

\* pd.cut(score, bins=[-inf, -0.5, 0, 0.5, inf], labels=...), right-closed bins
Cut(x) ==
    IF x.t = "nan" THEN NullLabel
    ELSE IF x.t = "inf" THEN (IF x.v > 0 THEN "Muito Alta" ELSE NullLabel)
    ELSE IF x.v <= CorteBaixa * ZScale THEN "Baixa"
    ELSE IF x.v <= CorteMedia * ZScale THEN "Média"
    ELSE IF x.v <= CorteAlta * ZScale THEN "Alta"
    ELSE "Muito Alta"

NivelVulnerabilidade(t) ==
    [i \in DOMAIN t.rows |-> Cut(t.rows[i]["score_vulnerabilidade"])]

-----------------------------------------------------------------------------
(* gerar_features_vulnerabilidade *)

\* A variant of the guarded assignment without the guard: the column is
\* computed and assigned also when the table already has it.
DeriveSempre(t, c, vals) == SetCol(t, c, vals)

\* "if c not in df_features.columns: df_features[c] = vals"
Derive(t, c, vals) == IF c \in t.cols THEN t ELSE SetCol(t, c, vals)

\* the block guarded by 'score_vulnerabilidade' not in columns: it adds the
\* normalised income and the score
WithScore(t) ==
    IF "score_vulnerabilidade" \in t.cols THEN t
    ELSE LET n == SetCol(t, "renda_per_capita_norm",
                         RendaPerCapitaNorm(Column(t, "renda_per_capita")))
         IN  SetCol(n, "score_vulnerabilidade",
                    ScoreVulnerabilidade(n, Column(n, "renda_per_capita_norm")))

\* A variant in which the score is accumulated onto a column that is already
\* there and nothing returns early.
GerarFeaturesAcumula(t, bf) ==
    LET t1 == Derive(t, "renda_per_capita", RendaPerCapita(t))
        t2 == Derive(t1, "vulnerabilidade_idade", VulnerabilidadeIdade(t1))
        t3 == Derive(t2, "infraestrutura_adequada", InfraestruturaAdequada(t2))
        t4 == Derive(t3, "escolaridade_baixa", EscolaridadeBaixa(t3))
        t5 == Derive(t4, "situacao_trabalho_precaria", SituacaoTrabalhoPrecaria(t4))
        t6 == Derive(t5, "superlotacao", Superlotacao(t5))
        t7 == Derive(t6, "recebe_bolsa_familia", RecebeBolsaFamilia(t6, bf))
        n  == SetCol(t7, "renda_per_capita_norm",
                     RendaPerCapitaNorm(Column(t7, "renda_per_capita")))
        w  == ScoreVulnerabilidade(n, Column(n, "renda_per_capita_norm"))
        t8 == SetCol(n, "score_vulnerabilidade",
                     [i \in DOMAIN n.rows |->
                        IF "score_vulnerabilidade" \in t.cols
                           /\ IsFinite(w[i])
                           /\ IsFinite(t.rows[i]["score_vulnerabilidade"])
                        THEN Fin(w[i].v + t.rows[i]["score_vulnerabilidade"].v)
                        ELSE w[i]])
    IN  SetCol(t8, "nivel_vulnerabilidade", NivelVulnerabilidade(t8))

\* gerar_features_vulnerabilidade(df_cadunico, df_bolsa_familia)
GerarFeaturesVulnerabilidade(t, bf) ==
    IF "nivel_vulnerabilidade" \in t.cols THEN t
    ELSE LET t1 == Derive(t, "renda_per_capita", RendaPerCapita(t))
             t2 == Derive(t1, "vulnerabilidade_idade", VulnerabilidadeIdade(t1))
             t3 == Derive(t2, "infraestrutura_adequada", InfraestruturaAdequada(t2))
             t4 == Derive(t3, "escolaridade_baixa", EscolaridadeBaixa(t3))
             t5 == Derive(t4, "situacao_trabalho_precaria", SituacaoTrabalhoPrecaria(t4))
             t6 == Derive(t5, "superlotacao", Superlotacao(t5))
             t7 == Derive(t6, "recebe_bolsa_familia", RecebeBolsaFamilia(t6, bf))
             t8 == WithScore(t7)
         IN  Derive(t8, "nivel_vulnerabilidade", NivelVulnerabilidade(t8))

\* AdaptadorDadosReais.gerar_features_vulnerabilidade(df): every column is
\* assigned unconditionally
AdaptadorGerarFeatures(t) ==
    LET t1 == SetCol(t, "renda_per_capita", RendaPerCapita(t))
        t2 == SetCol(t1, "vulnerabilidade_idade", VulnerabilidadeIdade(t1))
        t3 == SetCol(t2, "infraestrutura_adequada", InfraestruturaAdequada(t2))
        t4 == SetCol(t3, "escolaridade_baixa", EscolaridadeBaixa(t3))
        t5 == SetCol(t4, "situacao_trabalho_precaria", SituacaoTrabalhoPrecaria(t4))
        t6 == SetCol(t5, "superlotacao", Superlotacao(t5))
        n  == SetCol(t6, "renda_per_capita_norm",
                     RendaPerCapitaNorm(Column(t6, "renda_per_capita")))
        t7 == SetCol(n, "score_vulnerabilidade",
                     ScoreVulnerabilidade(n, Column(n, "renda_per_capita_norm")))
    IN  SetCol(t7, "nivel_vulnerabilidade", NivelVulnerabilidade(t7))

-----------------------------------------------------------------------------
(* preparar_dados_para_ml *)

FeaturesNumericas ==
    {"idade", "escolaridade", "renda_per_capita", "qtd_pessoas_familia",
     "possui_deficiencia", "situacao_trabalho", "tipo_moradia",
     "acesso_agua", "acesso_esgoto", "vulnerabilidade_idade",
     "infraestrutura_adequada", "escolaridade_baixa",
     "situacao_trabalho_precaria", "superlotacao"}

\* target_mapping; Series.map gives NaN for a label that is not a key
TargetMapping(l) ==
    CASE l = "Baixa" -> Fin(0)
      [] l = "Média" -> Fin(1)
      [] l = "Alta" -> Fin(2)
      [] l = "Muito Alta" -> Fin(3)
      [] OTHER -> NaN

\* A variant that takes every column but the tier into X.
PrepararTodasColunas(t) ==
    IF ~(FeaturesNumericas \subseteq t.cols) \/ "nivel_vulnerabilidade" \notin t.cols
    THEN [status |-> "KeyError", X |-> NoTable, y |-> <<>>]
    ELSE [status |-> "ok",
          X |-> Project(t, t.cols \ {"nivel_vulnerabilidade"}),
          y |-> [i \in DOMAIN t.rows |->
                    TargetMapping(t.rows[i]["nivel_vulnerabilidade"])]]

\* preparar_dados_para_ml(df): (X, y), or the KeyError of df[features_numericas]
PrepararDadosParaMl(t) ==
    LET fs == IF "recebe_bolsa_familia" \in t.cols
              THEN FeaturesNumericas \cup {"recebe_bolsa_familia"}
              ELSE FeaturesNumericas
    IN  IF ~(fs \subseteq t.cols) \/ "nivel_vulnerabilidade" \notin t.cols
        THEN [status |-> "KeyError", X |-> NoTable, y |-> <<>>]
        ELSE [status |-> "ok",
              X |-> Project(t, fs),
              y |-> [i \in DOMAIN t.rows |->
                        TargetMapping(t.rows[i]["nivel_vulnerabilidade"])]]

NoXy == [status |-> "none", X |-> NoTable, y |-> <<>>]

-----------------------------------------------------------------------------
(* Inputs of the feature pipeline *)

Familia(nis, idade, esc, renda, qtd, def, trab, agua, esgoto) ==
    [nis |-> nis, idade |-> idade, escolaridade |-> esc, renda_familiar |-> renda,
     qtd_pessoas_familia |-> qtd, possui_deficiencia |-> def,
     situacao_trabalho |-> trab, tipo_moradia |-> 1,
     acesso_agua |-> agua, acesso_esgoto |-> esgoto]

\* households on and around every threshold of the deriver; a family size of
\* zero (division by zero) and a 0/0 income are among them
Familias ==
    { Familia(1, 40, 3, 12, 1, 0, 2, 1, 1),
      Familia(2, 40, 3,  6, 1, 0, 2, 1, 1),
      Familia(3, 17, 2,  0, 1, 0, 1, 0, 0),
      Familia(4, 18, 3,  6, 1, 0, 2, 1, 0),
      Familia(5, 65, 2,  6, 1, 0, 2, 1, 1),
      Familia(6, 66, 3,  6, 6, 1, 1, 0, 1),
      Familia(7, 40, 3, 30, 5, 1, 0, 0, 0),
      Familia(8, 40, 3,  6, 0, 0, 2, 1, 1),
      Familia(9, 40, 3,  0, 0, 0, 2, 1, 1) }

FamiliasPre == { f \in Familias : f.nis \in {3, 6} }

\* the second argument: absent, or a table with an active and a cancelled benefit
BolsaNone == [present |-> FALSE, rows |-> <<>>]
BolsaTabela ==
    [present |-> TRUE,
     rows |-> << [nis |-> 3, status_beneficio |-> "ativo"],
                 [nis |-> 6, status_beneficio |-> "cancelado"] >>]

\* values of a score column computed upstream: on and next to every cut point
ScoreSamples ==
    << Fin(CorteBaixa * ZScale - 1), Fin(CorteBaixa * ZScale), Fin(CorteBaixa * ZScale + 1),
       Fin(CorteMedia * ZScale), Fin(CorteMedia * ZScale + 1),
       Fin(CorteAlta * ZScale), Fin(CorteAlta * ZScale + 1),
       NaN, PosInf, NegInf >>

NivelSamples == << "Alta", "Baixa", "Muito Alta", "Média" >>

Sample(seq, k) == seq[(k % Len(seq)) + 1]

\* cell of a precomputed column c of row i, in variant v of the upstream values
PreValue(c, i, v) ==
    CASE c = "renda_per_capita" -> Fin(7 * ((i + v) % 3))
      [] c = "score_vulnerabilidade" -> Sample(ScoreSamples, i + v)
      [] c = "nivel_vulnerabilidade" -> Sample(NivelSamples, i + v)
      [] OTHER -> (i + v) % 2

PreCols == DerivedCols \cup {"recebe_bolsa_familia"}

\* a table of canonical columns, plus the precomputed columns pre
Tabela(fams, pre, v) ==
    [cols |-> CanonicalCols \cup pre,
     rows |-> [i \in DOMAIN fams |->
                 [k \in CanonicalCols \cup pre |->
                    IF k \in pre THEN PreValue(k, i, v) ELSE fams[i][k]]]]

\* the other components are not running
MissingIdle ==
    /\ tabela = [cols |-> {}, numeric |-> {}, rows |-> <<>>]
    /\ estrategia = "mediana"
    /\ df_tratado = [cols |-> {}, numeric |-> {}, rows |-> <<>>]
    /\ df_retratado = [cols |-> {}, numeric |-> {}, rows |-> <<>>]

DetectIdle ==
    /\ arquivo = [lines |-> <<>>, bytes |-> "ascii"]
    /\ config_idx = 1
    /\ info = [separador |-> "", encoding |-> "", tipo |-> "", colunas |-> <<>>]
    /\ carregado = [status |-> "none", colunas |-> {}]

MapperIdle ==
    /\ df_original = NoTable
    /\ df_mapped = [status |-> "none", via |-> "", padrao |-> {}, tabela |-> NoTable]

AdaptIdle ==
    /\ df_fam = NoTable
    /\ df_pes = NoTable
    /\ chunk_size = 1
    /\ pos = 0
    /\ df_juncao = [status |-> "none", via |-> "", chave |-> "", tabela |-> NoTable]
    /\ df_final = NoTable
    /\ df_chunks = <<>>
    /\ saida = <<>>

GovIdle == MapperIdle /\ AdaptIdle

FloatIdle ==
    /\ lote = <<>>
    /\ lote_norm = <<>>
    /\ lote_score = <<>>

\* the model objects of the process: one of each subclass
Objetos == {"Random Forest", "XGBoost"}

\* no file at caminho
SemArquivo == [existe |-> FALSE, modelo |-> "None", scaler |-> "unfitted"]

SemResposta == [op |-> "", obj |-> "", res |-> ""]

\* __init__ of the two objects; no model file yet
ModeloIdle ==
    /\ modelo = [o \in Objetos |-> "None"]
    /\ scaler = [o \in Objetos |-> "unfitted"]
    /\ disco = SemArquivo
    /\ concluiu = [o \in Objetos |-> FALSE]
    /\ resposta = SemResposta

\* no request answered yet
SemRespostaApi ==
    [endpoint |-> "", status |-> 0, erro |-> "", chamados |-> {},
     modelos |-> [rf_model |-> "", xgb_model |-> "", meta_classificador |-> ""],
     pred_rf |-> -1, pred_xgb |-> -1,
     rf_label |-> "", xgb_label |-> "", analise_llm |-> ""]

\* the globals of the API module as the import leaves them
ApiIdle ==
    /\ rf_model = "None"
    /\ xgb_model = "None"
    /\ feature_names = "None"
    /\ meta_classificador = "None"
    /\ iniciado = "no"
    /\ api_resposta = SemRespostaApi

ServIdle == FloatIdle /\ ModeloIdle /\ ApiIdle

FeaturesIdle ==
    /\ df = NoTable
    /\ df_bolsa_familia = BolsaNone
    /\ df_features = NoTable
    /\ df_rerun = NoTable
    /\ Xy = NoXy

InitFeatures ==
    /\ pc = "input"
    /\ \/ \E n \in 1..MaxRows : \E fams \in [1..n -> Familias] :
            df = Tabela(fams, {}, 0)
       \/ \E n \in 1..MaxPreRows : \E fams \in [1..n -> FamiliasPre] :
          \E pre \in (SUBSET PreCols) \ {{}} : \E v \in 1..Len(ScoreSamples) :
            df = Tabela(fams, pre, v)
    /\ df_bolsa_familia \in {BolsaNone, BolsaTabela}
    /\ df_features = NoTable
    /\ df_rerun = NoTable
    /\ Xy = NoXy
    /\ MissingIdle
    /\ DetectIdle
    /\ GovIdle
    /\ ServIdle

\* df_features = gerar_features_vulnerabilidade(df, df_bolsa_familia)
GerarFeatures ==
    /\ pc = "input"
    /\ df_features' = GerarFeaturesVulnerabilidade(df, df_bolsa_familia)
    /\ pc' = "features"
    /\ UNCHANGED <<df, df_bolsa_familia, df_rerun, Xy, missingVars, detectVars, govVars, servVars>>

\* df_features = AdaptadorDadosReais().gerar_features_vulnerabilidade(df), on the
\* output of juntar_dados (no derived column yet)
AdaptadorGerar ==
    /\ pc = "input"
    /\ df.cols \cap DerivedCols = {}
    /\ ~df_bolsa_familia.present
    /\ df_features' = AdaptadorGerarFeatures(df)
    /\ pc' = "features"
    /\ UNCHANGED <<df, df_bolsa_familia, df_rerun, Xy, missingVars, detectVars, govVars, servVars>>

\* the function applied again, to its own output
GerarFeaturesNovamente ==
    /\ pc = "features"
    /\ df_rerun' = GerarFeaturesVulnerabilidade(df_features, df_bolsa_familia)
    /\ pc' = "rerun"
    /\ UNCHANGED <<df, df_bolsa_familia, df_features, Xy, missingVars, detectVars, govVars, servVars>>

\* X, y = preparar_dados_para_ml(df_features)
PrepararDados ==
    /\ pc = "features"
    /\ Xy' = PrepararDadosParaMl(df_features)
    /\ pc' = "ml"
    /\ UNCHANGED <<df, df_bolsa_familia, df_features, df_rerun, missingVars, detectVars, govVars, servVars>>

NextFeatures ==
    \/ GerarFeatures
    \/ AdaptadorGerar
    \/ GerarFeaturesNovamente
    \/ PrepararDados

SpecFeatures == InitFeatures /\ [][NextFeatures]_vars

-----------------------------------------------------------------------------
(* tratar_dados_faltantes *)

\* A cell of these tables is Fin(v), Str(s) or the null NaN.  Numbers are held
\* in units of 1/Den, Den the least common multiple of the possible row
\* counts, so that a median and a mean of input cells are exact.
Str(s) == [t |-> "str", s |-> s]

RECURSIVE Gcd(_, _)
Gcd(a, b) == IF b = 0 THEN a ELSE Gcd(b, a % b)

RECURSIVE LcmUpTo(_)
LcmUpTo(n) == IF n <= 1 THEN 1 ELSE (LcmUpTo(n - 1) * n) \div Gcd(LcmUpTo(n - 1), n)

Den == 2 * LcmUpTo(MaxMissRows)

\* the strategies the function tests for
Estrategias == {"mediana", "media", "moda", "remover"}

NaoNulos(col) == {i \in DOMAIN col : ~IsNull(col[i])}

\* order of the cells of one column, as Series.mode() sorts them
StrRank(s) == CASE s = "F" -> 1 [] s = "M" -> 2 [] OTHER -> 3
CellKey(x) == IF x.t = "fin" THEN x.v ELSE StrRank(x.s)

\* the k-th smallest of the non-null cells of a numeric column
Kth(col, k) ==
    LET nn == NaoNulos(col)
    IN  CHOOSE v \in {col[i].v : i \in nn} :
            /\ Cardinality({i \in nn : col[i].v < v}) < k
            /\ k <= Cardinality({i \in nn : col[i].v <= v})

\* Series.median(): NaN cells are skipped; NaN when none is left
Median(col) ==
    LET m == Cardinality(NaoNulos(col))
    IN  IF m = 0 THEN NaN
        ELSE IF m % 2 = 1 THEN Fin(Kth(col, (m + 1) \div 2))
        ELSE Fin((Kth(col, m \div 2) + Kth(col, m \div 2 + 1)) \div 2)

\* Series.mean(): NaN cells are skipped; NaN when none is left
Mean(col) ==
    LET nn == NaoNulos(col)
    IN  IF nn = {} THEN NaN
        ELSE Fin(SumSeq([i \in DOMAIN col |-> IF i \in nn THEN col[i].v ELSE 0])
                    \div Cardinality(nn))

\* "col.mode().iloc[0] if not col.mode().empty else 0": the smallest of the most
\* frequent non-null cells
ModeOrZero(col) ==
    LET nn == NaoNulos(col)
        cnt(i) == Cardinality({j \in nn : col[j] = col[i]})
        top == {i \in nn : \A j \in nn : cnt(j) <= cnt(i)}
    IN  IF nn = {} THEN Fin(0)
        ELSE col[CHOOSE i \in top : \A j \in top : CellKey(col[i]) <= CellKey(col[j])]

\* A variant of fillna that fills at most one null of the column, the first
\* (fillna(x, limit=1)).
FillNaLimite1(col, x) ==
    [i \in DOMAIN col |->
        IF IsNull(col[i]) /\ \A j \in 1..(i - 1) : ~IsNull(col[j]) THEN x ELSE col[i]]

\* col.fillna(x, inplace=True): a NaN fill value leaves the nulls in place
FillNa(col, x) == [i \in DOMAIN col |-> IF IsNull(col[i]) THEN x ELSE col[i]]

\* the table with every column c of cs replaced by filled[c]
FillCols(t, cs, filled) ==
    [t EXCEPT !.rows = [i \in DOMAIN t.rows |->
        [c \in t.cols |-> IF c \in cs THEN filled[c][i] ELSE t.rows[i][c]]]]

RECURSIVE SelectRows(_, _)
SelectRows(rows, keep) ==
    IF rows = <<>> THEN <<>>
    ELSE IF keep[1]
         THEN <<Head(rows)>> \o SelectRows(Tail(rows), Tail(keep))
         ELSE SelectRows(Tail(rows), Tail(keep))

\* A variant of dropna() that drops a row only when all of its cells are null.
DropNaTodos(t) ==
    [t EXCEPT !.rows =
        SelectRows(t.rows, [i \in DOMAIN t.rows |-> \E c \in t.cols : ~IsNull(t.rows[i][c])])]

\* df.dropna(): the rows without any null, in their order
DropNa(t) ==
    [t EXCEPT !.rows =
        SelectRows(t.rows, [i \in DOMAIN t.rows |-> \A c \in t.cols : ~IsNull(t.rows[i][c])])]

\* tratar_dados_faltantes(df, estrategia); t.numeric are the columns of
\* select_dtypes(include=[np.number]).  A strategy that matches no branch falls
\* through to the return of the copy.
TratarDadosFaltantes(t, e) ==
    CASE e = "mediana" ->
            FillCols(t, t.numeric,
                     [c \in t.numeric |-> FillNa(Column(t, c), Median(Column(t, c)))])
      [] e = "media" ->
            FillCols(t, t.numeric,
                     [c \in t.numeric |-> FillNa(Column(t, c), Mean(Column(t, c)))])
      [] e = "moda" ->
            FillCols(t, t.cols,
                     [c \in t.cols |-> FillNa(Column(t, c), ModeOrZero(Column(t, c)))])
      [] e = "remover" -> DropNa(t)
      [] OTHER -> t

-----------------------------------------------------------------------------
(* Inputs and driver of tratar_dados_faltantes *)

ColunasFaltantes == {"idade", "renda_familiar", "sexo"}

LinhasFaltantes ==
    [idade : {Fin(20 * Den), Fin(30 * Den), NaN},
     renda_familiar : {Fin(10 * Den), NaN},
     sexo : {Str("M"), NaN}]

NoMissTable == [cols |-> {}, numeric |-> {}, rows |-> <<>>]

\* the strategy names a caller may pass: the four of the docstring and the
\* English name "median", which the function does not know
EstrategiasPassadas == Estrategias \cup {"median"}

InitMissing ==
    /\ pc = "input"
    /\ \E n \in 0..MaxMissRows : \E rs \in [1..n -> LinhasFaltantes] :
          tabela = [cols |-> ColunasFaltantes,
                    numeric |-> {"idade", "renda_familiar"},
                    rows |-> rs]
    /\ estrategia \in EstrategiasPassadas
    /\ df_tratado = NoMissTable
    /\ df_retratado = NoMissTable
    /\ FeaturesIdle
    /\ DetectIdle
    /\ GovIdle
    /\ ServIdle

\* df_tratado = tratar_dados_faltantes(tabela, estrategia): the function has no
\* raise statement, so it always returns
Tratar ==
    /\ pc = "input"
    /\ df_tratado' = TratarDadosFaltantes(tabela, estrategia)
    /\ pc' = "returned"
    /\ UNCHANGED <<tabela, estrategia, df_retratado, featureVars, detectVars, govVars, servVars>>

\* tratar_dados_faltantes(df_tratado, estrategia): the function applied, with
\* the same strategy, to the table it returned
TratarNovamente ==
    /\ pc = "returned"
    /\ df_retratado' = TratarDadosFaltantes(df_tratado, estrategia)
    /\ pc' = "rerun"
    /\ UNCHANGED <<tabela, estrategia, df_tratado, featureVars, detectVars, govVars, servVars>>

NextMissing == Tratar \/ TratarNovamente

SpecMissing == InitMissing /\ [][NextMissing]_vars

-----------------------------------------------------------------------------
(* detectar_formato_arquivo *)

\* A file is [lines, bytes]: lines is a sequence of lines, a line a sequence of
\* tokens (a name, a value, or one delimiter character); bytes tells how the
\* text is encoded: "ascii" (no byte above 127), "utf-8" or "latin-1" (with
\* accented characters, so the latin-1 bytes are no valid UTF-8).

\* the list configs, in its order
Configs ==
    << [sep |-> ";", encoding |-> "latin-1"],
       [sep |-> ";", encoding |-> "utf-8"],
       [sep |-> "\t", encoding |-> "latin-1"],
       [sep |-> "\t", encoding |-> "utf-8"],
       [sep |-> ",", encoding |-> "utf-8"],
       [sep |-> ",", encoding |-> "latin-1"] >>

\* nrows=5
NRowsTest == 5

Min(a, b) == IF a <= b THEN a ELSE b
Max(a, b) == IF a >= b THEN a ELSE b

RECURSIVE CountTok(_, _)
CountTok(line, tok) ==
    IF line = <<>> THEN 0
    ELSE (IF Head(line) = tok THEN 1 ELSE 0) + CountTok(Tail(line), tok)

\* number of fields of a line under a separator
NFields(line, sep) == 1 + CountTok(line, sep)

\* the fields of a line under a separator, each the tokens between separators
RECURSIVE SplitLine(_, _, _)
SplitLine(line, sep, cur) ==
    IF line = <<>> THEN <<cur>>
    ELSE IF Head(line) = sep
         THEN <<cur>> \o SplitLine(Tail(line), sep, <<>>)
         ELSE SplitLine(Tail(line), sep, Append(cur, Head(line)))

\* pd.read_csv(file_path, nrows=5, sep, encoding): the column names, or the
\* exception.  An empty file has no columns to parse; bytes that are not UTF-8
\* do not decode as utf-8 (latin-1 decodes anything); the C tokenizer rejects a
\* line after the first data line that has more fields than the header and the
\* first data line ("Expected n fields, saw m").
ReadCsv(f, config) ==
    LET last == Min(Len(f.lines), NRowsTest + 1)
        expected == IF Len(f.lines) >= 2
                    THEN Max(NFields(f.lines[1], config.sep), NFields(f.lines[2], config.sep))
                    ELSE NFields(f.lines[1], config.sep)
    IN  IF f.lines = <<>> THEN [ok |-> FALSE, columns |-> <<>>]
        ELSE IF config.encoding = "utf-8" /\ f.bytes = "latin-1"
             THEN [ok |-> FALSE, columns |-> <<>>]
        ELSE IF \E k \in 3..last : NFields(f.lines[k], config.sep) > expected
             THEN [ok |-> FALSE, columns |-> <<>>]
        ELSE [ok |-> TRUE, columns |-> SplitLine(f.lines[1], config.sep, <<>>)]

\* col.lower(), token by token
LowerTok(tok) ==
    CASE tok = "CD_IBGE" -> "cd_ibge"
      [] tok = "QTDE_PESSOAS" -> "qtde_pessoas"
      [] OTHER -> tok

Lower(col) == [i \in DOMAIN col |-> LowerTok(col[i])]

\* "name in colunas", colunas the lower-cased column names
TemColuna(columns, name) == \E i \in DOMAIN columns : Lower(columns[i]) = <<name>>

\* the if/elif chain over the column names
TipoPorColunas(columns) ==
    IF TemColuna(columns, "cd_ibge") \/ TemColuna(columns, "cod_familiar_fam")
    THEN "cadunico_familia"
    ELSE IF TemColuna(columns, "cod_familiar_pes") \/ TemColuna(columns, "nom_pessoa")
    THEN "cadunico_pessoa"
    ELSE IF TemColuna(columns, "uf") /\ TemColuna(columns, "valor_parcela")
    THEN "bolsa_familia"
    ELSE "desconhecido"

-----------------------------------------------------------------------------
(* carregar_e_mapear_arquivo *)

\* pd.read_csv(file_path, sep, encoding, nrows=None): as ReadCsv, over all lines
ReadCsvTodo(f, config) ==
    LET expected == IF Len(f.lines) >= 2
                    THEN Max(NFields(f.lines[1], config.sep), NFields(f.lines[2], config.sep))
                    ELSE NFields(f.lines[1], config.sep)
    IN  IF f.lines = <<>> THEN [ok |-> FALSE, columns |-> <<>>]
        ELSE IF config.encoding = "utf-8" /\ f.bytes = "latin-1"
             THEN [ok |-> FALSE, columns |-> <<>>]
        ELSE IF \E k \in 3..Len(f.lines) : NFields(f.lines[k], config.sep) > expected
             THEN [ok |-> FALSE, columns |-> <<>>]
        ELSE [ok |-> TRUE, columns |-> SplitLine(f.lines[1], config.sep, <<>>)]

\* the raw columns mapear_cadunico_familia indexes (df['name'])
ColunasFamiliaLidas ==
    {"cd_ibge", "vlr_renda_media_fam", "qtde_pessoas", "marc_pbf",
     "cod_abaste_agua_domic_fam", "cod_escoa_sanitario_domic_fam",
     "cod_material_domic_fam", "qtd_comodos_domic_fam",
     "cod_iluminacao_domic_fam", "cod_destino_lixo_domic_fam"}

\* the columns of the table mapear_cadunico_familia returns
ColunasFamiliaMapeada ==
    {"cod_municipio", "renda_familiar", "qtd_pessoas_familia", "renda_per_capita",
     "recebe_bolsa_familia", "acesso_agua", "acesso_esgoto", "tipo_moradia",
     "superlotacao", "acesso_energia", "coleta_lixo", "idade", "sexo",
     "escolaridade", "situacao_trabalho", "possui_deficiencia"}

\* mapeamento of mapear_cadunico_pessoa: origin column, destination column
MapeamentoPessoa ==
    { <<"cod_familiar_fam", "cod_familia">>, <<"idade_pessoa", "idade">>,
      <<"cod_sexo_pessoa", "sexo">>, <<"cod_curso_frequenta_pessoa", "escolaridade">>,
      <<"cod_trabalho_12_meses_pessoa", "situacao_trabalho">> }

\* mapeamento of mapear_bolsa_familia
MapeamentoBolsa == { <<"VALOR PARCELA", "valor_bolsa_familia">> }

\* the names of a set of columns, each a one-token name
Nomes(names) == { <<n>> : n \in names }

\* the set of the column names read (not lower-cased: the mappers look the
\* columns up as the file spells them)
ColunasLidas(columns) == { columns[i] : i \in DOMAIN columns }

\* carregar_e_mapear_arquivo(file_path), given the info of the detection: the
\* table it returns (its columns), or the exception that leaves it
CarregarEMapearArquivo(f, i) ==
    LET r == ReadCsvTodo(f, [sep |-> i.separador, encoding |-> i.encoding])
        lidas == ColunasLidas(r.columns)
    IN  IF ~r.ok THEN [status |-> "ParserError", colunas |-> {}]
        ELSE CASE i.tipo = "cadunico_familia" ->
                    IF Nomes(ColunasFamiliaLidas) \subseteq lidas
                    THEN [status |-> "ok", colunas |-> Nomes(ColunasFamiliaMapeada)]
                    ELSE [status |-> "KeyError", colunas |-> {}]
               [] i.tipo = "cadunico_pessoa" ->
                    [status |-> "ok",
                     colunas |-> { <<m[2]>> : m \in {x \in MapeamentoPessoa : <<x[1]>> \in lidas} }]
               [] i.tipo = "bolsa_familia" ->
                    [status |-> "ok",
                     colunas |-> { <<m[2]>> : m \in {x \in MapeamentoBolsa : <<x[1]>> \in lidas} }
                                 \cup {<<"recebe_bolsa_familia">>}]
               [] OTHER -> [status |-> "ok", colunas |-> lidas]

-----------------------------------------------------------------------------
(* Inputs and driver of detectar_formato_arquivo *)

Delims == {";", "\t", ","}

Headers ==
    { <<"cd_ibge", "qtde_pessoas">>,
      <<"CD_IBGE", "QTDE_PESSOAS">>,
      <<"cd_ibge">>,
      <<"nom_pessoa", "idade">>,
      <<"uf", "valor_parcela">>,
      <<"a", "b">>,
      <<"cd_ibge", "vlr_renda_media_fam", "qtde_pessoas", "marc_pbf",
        "cod_abaste_agua_domic_fam", "cod_escoa_sanitario_domic_fam",
        "cod_material_domic_fam", "qtd_comodos_domic_fam",
        "cod_iluminacao_domic_fam", "cod_destino_lixo_domic_fam">> }

\* the names of a header, or the values of a data line, joined by delimiter d
RECURSIVE Join(_, _)
Join(names, d) ==
    IF Len(names) <= 1 THEN names
    ELSE <<Head(names), d>> \o Join(Tail(names), d)

\* a data line of n values under delimiter d; with stray # d its first value
\* holds the character stray (a decimal comma, a ';' inside a text)
DataLine(n, d, stray) ==
    IF stray = d THEN Join([i \in 1..n |-> "v"], d)
    ELSE <<"v", stray>> \o Join([i \in 1..n |-> "v"], d)

Arquivos ==
    { [lines |-> <<>>, bytes |-> b] : b \in {"ascii", "utf-8", "latin-1"} }
    \cup
    UNION { UNION { UNION { UNION {
        { [lines |-> <<Join(h, d)>> \o [k \in 1..n |-> DataLine(Len(h), d, st[k])],
           bytes |-> b] : st \in [1..n -> Delims] }
        : n \in 0..MaxDataLines } : b \in {"ascii", "utf-8", "latin-1"} }
        : h \in Headers } : d \in Delims }

NoInfo == [separador |-> "", encoding |-> "", tipo |-> "", colunas |-> <<>>]

NaoCarregado == [status |-> "none", colunas |-> {}]

InitDetect ==
    /\ pc = "detecting"
    /\ arquivo \in Arquivos
    /\ config_idx = 1
    /\ info = NoInfo
    /\ carregado = NaoCarregado
    /\ FeaturesIdle
    /\ MissingIdle
    /\ GovIdle
    /\ ServIdle

\* one iteration of "for config in configs": the first config whose read_csv
\* raises nothing returns, whatever tipo the column names gave
TentarConfig ==
    /\ pc = "detecting"
    /\ config_idx <= Len(Configs)
    /\ LET config == Configs[config_idx]
           r == ReadCsv(arquivo, config)
       IN  \/ /\ r.ok
              /\ info' = [separador |-> config.sep, encoding |-> config.encoding,
                          tipo |-> TipoPorColunas(r.columns), colunas |-> r.columns]
              /\ pc' = "returned"
              /\ UNCHANGED config_idx
           \/ /\ ~r.ok
              /\ config_idx' = config_idx + 1
              /\ UNCHANGED <<pc, info>>
    /\ UNCHANGED <<arquivo, carregado, featureVars, missingVars, govVars, servVars>>

\* the loop ran out of configs: raise ValueError
NaoDetectado ==
    /\ pc = "detecting"
    /\ config_idx > Len(Configs)
    /\ pc' = "raised"
    /\ UNCHANGED <<arquivo, config_idx, info, carregado, featureVars, missingVars, govVars, servVars>>

\* carregar_e_mapear_arquivo after detectar_formato_arquivo returned: the file
\* is read again, whole, with the detected separator and encoding, and mapped
\* by info['tipo'].  A ValueError of the detection propagates (pc = "raised").
CarregarEMapear ==
    /\ pc = "returned"
    /\ carregado' = CarregarEMapearArquivo(arquivo, info)
    /\ pc' = "loaded"
    /\ UNCHANGED <<arquivo, config_idx, info, featureVars, missingVars, govVars, servVars>>

NextDetect == TentarConfig \/ NaoDetectado \/ CarregarEMapear

SpecDetect == InitDetect /\ [][NextDetect]_vars

-----------------------------------------------------------------------------
(* mapear_cadunico_familia, converter_arquivo_familias and the defaults of   *)
(* analisar_arquivo_governo                                                  *)

\* A raw family table is [cols, rows]; a raw cell is Fin(v) or NaN, as read_csv
\* gives it.  The result of a mapper is [status, via, padrao, tabela]: padrao is
\* the set of columns the mapper filled with a constant because the file has
\* no such column.

\* largest number of rows of a raw family table
MaxRawRows == 2

\* Series.fillna(d) of a raw cell, then its number
FillNaCell(x, d) == IF IsNull(x) THEN d ELSE x.v

\* (renda / qtd.replace(0, 1)).replace([inf, -inf], 0).fillna(0)
RendaPerCapitaFamilia(renda, qtd) ==
    LET r == TrueDiv(renda, IF qtd = 0 THEN 1 ELSE qtd)
    IN  IF IsFinite(r) THEN r ELSE Fin(0)

\* (df['cod_abaste_agua_domic_fam'] == 1).astype(int)
AcessoAguaFamilia(x) == BoolInt(x = Fin(1))

\* A variant of the sewage table that accepts the collection network only.
AcessoEsgotoSoRede(x) == BoolInt(x = Fin(1))

\* df['cod_escoa_sanitario_domic_fam'].isin([1, 2]).astype(int)
AcessoEsgotoFamilia(x) == BoolInt(x \in {Fin(1), Fin(2)})

\* transformar_esgoto: (cod_esgoto == 1).astype(int)
TransformarEsgoto(x) == BoolInt(x = Fin(1))

\* converter_arquivo_familias: (to_numeric(code).fillna(0) == 1).astype(int)
AcessoEsgotoConversor(x) == BoolInt(FillNaCell(x, 0) = 1)

\* converter_e_mesclar_familias_pessoas: (to_numeric(code) == 1).astype(int)
AcessoEsgotoMesclado(x) == BoolInt(x = Fin(1))

\* df['cod_material_domic_fam'].map(material_mapping).fillna(1).astype(int)
TipoMoradiaFamilia(x) ==
    CASE x = Fin(1) -> 2
      [] x \in {Fin(2), Fin(3), Fin(4)} -> 1
      [] x \in {Fin(5), Fin(6), Fin(7), Fin(8)} -> 0
      [] OTHER -> 1

\* (qtd_pessoas_familia / qtd_comodos.fillna(4).replace(0, 1) > 2).astype(int)
SuperlotacaoFamilia(qtd, comodos) ==
    LET c == FillNaCell(comodos, 4)
    IN  BoolInt(qtd > 2 * (IF c = 0 THEN 1 ELSE c))

\* the constants mapear_cadunico_familia writes into the respondent columns
PadraoMapeador ==
    [idade |-> 35, sexo |-> "F", escolaridade |-> 2, situacao_trabalho |-> 0,
     possui_deficiencia |-> 0]

\* one row of the table mapear_cadunico_familia builds
LinhaFamiliaMapeada(r) ==
    LET renda == FillNaCell(r["vlr_renda_media_fam"], 0)
        qtd   == FillNaCell(r["qtde_pessoas"], 1)
    IN  [cod_municipio |-> r["cd_ibge"],
         renda_familiar |-> renda,
         qtd_pessoas_familia |-> qtd,
         renda_per_capita |-> RendaPerCapitaFamilia(renda, qtd),
         recebe_bolsa_familia |-> FillNaCell(r["marc_pbf"], 0),
         acesso_agua |-> AcessoAguaFamilia(r["cod_abaste_agua_domic_fam"]),
         acesso_esgoto |-> AcessoEsgotoFamilia(r["cod_escoa_sanitario_domic_fam"]),
         tipo_moradia |-> TipoMoradiaFamilia(r["cod_material_domic_fam"]),
         superlotacao |-> SuperlotacaoFamilia(qtd, r["qtd_comodos_domic_fam"]),
         acesso_energia |-> BoolInt(r["cod_iluminacao_domic_fam"] = Fin(1)),
         coleta_lixo |-> BoolInt(r["cod_destino_lixo_domic_fam"] = Fin(1)),
         idade |-> PadraoMapeador.idade,
         sexo |-> PadraoMapeador.sexo,
         escolaridade |-> PadraoMapeador.escolaridade,
         situacao_trabalho |-> PadraoMapeador.situacao_trabalho,
         possui_deficiencia |-> PadraoMapeador.possui_deficiencia]

NaoMapeado == [status |-> "none", via |-> "", padrao |-> {}, tabela |-> NoTable]

\* mapear_cadunico_familia(df): df['name'] of a column the table lacks raises
\* KeyError
MapearCadunicoFamilia(t) ==
    IF ~(ColunasFamiliaLidas \subseteq t.cols)
    THEN [status |-> "KeyError", via |-> "mapear_cadunico_familia",
          padrao |-> {}, tabela |-> NoTable]
    ELSE [status |-> "ok", via |-> "mapear_cadunico_familia",
          padrao |-> DOMAIN PadraoMapeador,
          tabela |-> [cols |-> ColunasFamiliaMapeada,
                      rows |-> [i \in DOMAIN t.rows |-> LinhaFamiliaMapeada(t.rows[i])]]]

\* the raw columns converter_arquivo_familias indexes
ColunasConversorLidas ==
    {"cd_ibge", "id_familia", "vlr_renda_media_fam", "qtde_pessoas",
     "cod_especie_domic_fam", "cod_agua_canalizada_fam",
     "cod_escoa_sanitario_domic_fam", "marc_pbf"}

\* the constants converter_arquivo_familias writes into the respondent columns
PadraoConversor ==
    [idade |-> 35, sexo |-> "F", escolaridade |-> 1, situacao_trabalho |-> 0,
     possui_deficiencia |-> 0]

\* renda_familiar / qtd_pessoas_familia, then fillna(0): a division by zero
\* stays infinite
RendaPerCapitaConversor(renda, qtd) ==
    LET r == TrueDiv(renda, qtd) IN IF IsNull(r) THEN Fin(0) ELSE r

\* one row of the table converter_arquivo_familias builds
LinhaConvertida(r) ==
    LET renda == FillNaCell(r["vlr_renda_media_fam"], 0)
        qtd   == FillNaCell(r["qtde_pessoas"], 1)
    IN  [cod_municipio |-> r["cd_ibge"],
         id_familia |-> r["id_familia"],
         renda_familiar |-> renda,
         qtd_pessoas_familia |-> qtd,
         renda_per_capita |-> RendaPerCapitaConversor(renda, qtd),
         tipo_moradia |-> FillNaCell(r["cod_especie_domic_fam"], 1),
         acesso_agua |-> BoolInt(FillNaCell(r["cod_agua_canalizada_fam"], 0) = 1),
         acesso_esgoto |-> AcessoEsgotoConversor(r["cod_escoa_sanitario_domic_fam"]),
         recebe_bolsa_familia |-> FillNaCell(r["marc_pbf"], 0),
         idade |-> PadraoConversor.idade,
         sexo |-> PadraoConversor.sexo,
         escolaridade |-> PadraoConversor.escolaridade,
         situacao_trabalho |-> PadraoConversor.situacao_trabalho,
         possui_deficiencia |-> PadraoConversor.possui_deficiencia]

\* converter_arquivo_familias, on the table it read from arquivo_entrada
ConverterArquivoFamilias(t) ==
    IF ~(ColunasConversorLidas \subseteq t.cols)
    THEN [status |-> "KeyError", via |-> "converter_arquivo_familias",
          padrao |-> {}, tabela |-> NoTable]
    ELSE [status |-> "ok", via |-> "converter_arquivo_familias",
          padrao |-> DOMAIN PadraoConversor,
          tabela |-> [cols |-> DOMAIN LinhaConvertida(t.rows[1]),
                      rows |-> [i \in DOMAIN t.rows |-> LinhaConvertida(t.rows[i])]]]

\* colunas_obrigatorias of analisar_arquivo_governo, and the cod_municipio it
\* adds after the loop
ColunasObrigatorias ==
    [idade |-> 35, sexo |-> "M", escolaridade |-> 1, qtd_pessoas_familia |-> 4,
     renda_per_capita |-> Fin(0), situacao_trabalho |-> 0, acesso_agua |-> 0,
     acesso_esgoto |-> 0, recebe_bolsa_familia |-> 0, possui_deficiencia |-> 0,
     tipo_moradia |-> 1, cod_municipio |-> Fin(999999)]

\* "if col not in df_mapped.columns: df_mapped[col] = valor_padrao", for every
\* obligatory column
PreencherObrigatorias(t) ==
    LET novas == DOMAIN ColunasObrigatorias \ t.cols
    IN  [cols |-> t.cols \cup novas,
         rows |-> [i \in DOMAIN t.rows |->
                     [c \in t.cols \cup novas |->
                        IF c \in novas THEN ColunasObrigatorias[c] ELSE t.rows[i][c]]]]

\* the if/elif chain of detectar_formato_arquivo, on the columns of a table
TipoDaTabela(t) ==
    IF "cd_ibge" \in t.cols \/ "cod_familiar_fam" \in t.cols THEN "cadunico_familia"
    ELSE IF "cod_familiar_pes" \in t.cols \/ "nom_pessoa" \in t.cols THEN "cadunico_pessoa"
    ELSE IF "uf" \in t.cols /\ "valor_parcela" \in t.cols THEN "bolsa_familia"
    ELSE "desconhecido"

\* analisar_arquivo_governo up to its default filling, for a file of family or
\* unknown layout: carregar_e_mapear_arquivo, then the obligatory columns
AnalisarArquivoGoverno(t) ==
    LET m == IF TipoDaTabela(t) = "cadunico_familia"
             THEN MapearCadunicoFamilia(t)
             ELSE [status |-> "ok", via |-> "", padrao |-> {}, tabela |-> t]
    IN  IF m.status # "ok"
        THEN [m EXCEPT !.via = "analisar_arquivo_governo"]
        ELSE [status |-> "ok", via |-> "analisar_arquivo_governo",
              padrao |-> DOMAIN ColunasObrigatorias \ m.tabela.cols,
              tabela |-> PreencherObrigatorias(m.tabela)]

-----------------------------------------------------------------------------
(* Inputs and drivers of the family mappers *)

RawCols == ColunasFamiliaLidas \cup ColunasConversorLidas

\* raw rows: every code of the lookup tables, codes outside them, nulls, a
\* family size of zero with and without income
LinhaBruta(k) ==
    [c \in RawCols |->
        CASE c = "cd_ibge" -> Fin(k)
          [] c = "id_familia" -> Fin(k)
          [] c = "vlr_renda_media_fam" -> Sample(<<Fin(6), Fin(0), NaN, Fin(12)>>, k)
          [] c = "qtde_pessoas" -> Sample(<<Fin(1), Fin(0), NaN, Fin(3), Fin(7)>>, k)
          [] c = "marc_pbf" -> Sample(<<Fin(1), Fin(0), NaN>>, k)
          [] c = "cod_abaste_agua_domic_fam" -> Sample(<<Fin(1), Fin(2), NaN>>, k + 1)
          [] c = "cod_escoa_sanitario_domic_fam" ->
                Sample(<<Fin(1), Fin(2), Fin(3), NaN>>, k)
          [] c = "cod_material_domic_fam" ->
                Sample(<<Fin(1), Fin(2), Fin(3), Fin(4), Fin(5), Fin(6), Fin(7),
                         Fin(8), NaN, Fin(9)>>, k)
          [] c = "qtd_comodos_domic_fam" ->
                Sample(<<Fin(4), Fin(0), NaN, Fin(1)>>, k + 2)
          [] c = "cod_iluminacao_domic_fam" -> Sample(<<Fin(1), Fin(5)>>, k)
          [] c = "cod_destino_lixo_domic_fam" -> Sample(<<Fin(1), Fin(3), NaN>>, k)
          [] c = "cod_especie_domic_fam" -> Sample(<<Fin(1), Fin(2), NaN>>, k)
          [] OTHER -> Sample(<<Fin(1), Fin(2), NaN>>, k + 2)]

FamiliasBrutas == { LinhaBruta(k) : k \in 1..12 }

\* a raw table without the columns of the set omit
TabelaBruta(linhas, omit) ==
    [cols |-> RawCols \ omit,
     rows |-> [i \in DOMAIN linhas |-> [c \in RawCols \ omit |-> linhas[i][c]]]]

InitMapper ==
    /\ pc = "input"
    /\ \E n \in 1..MaxRawRows : \E linhas \in [1..n -> FamiliasBrutas] :
       \E omit \in {{}} \cup {{c} : c \in RawCols} :
            df_original = TabelaBruta(linhas, omit)
    /\ df_mapped = NaoMapeado
    /\ FeaturesIdle
    /\ MissingIdle
    /\ DetectIdle
    /\ AdaptIdle
    /\ ServIdle

\* df_mapped = mapear_cadunico_familia(df_original)
MapearFamilia ==
    /\ pc = "input"
    /\ df_mapped' = MapearCadunicoFamilia(df_original)
    /\ pc' = "mapped"
    /\ UNCHANGED <<df_original, featureVars, missingVars, detectVars, adaptVars, servVars>>

\* df_novo = converter_arquivo_familias(...)
ConverterFamilias ==
    /\ pc = "input"
    /\ df_mapped' = ConverterArquivoFamilias(df_original)
    /\ pc' = "mapped"
    /\ UNCHANGED <<df_original, featureVars, missingVars, detectVars, adaptVars, servVars>>

\* analisar_arquivo_governo: carregar_e_mapear_arquivo and the default filling
AnalisarArquivo ==
    /\ pc = "input"
    /\ df_mapped' = AnalisarArquivoGoverno(df_original)
    /\ pc' = "mapped"
    /\ UNCHANGED <<df_original, featureVars, missingVars, detectVars, adaptVars, servVars>>

\* df_mapped = gerar_features_vulnerabilidade(df_mapped): the deriver on the
\* table a mapper returned, as analisar_arquivo_governo calls it
DerivarMapeado ==
    /\ pc = "mapped"
    /\ df_mapped.status = "ok"
    /\ df_features' = GerarFeaturesVulnerabilidade(df_mapped.tabela, BolsaNone)
    /\ pc' = "derived"
    /\ UNCHANGED <<df, df_bolsa_familia, df_rerun, Xy>>
    /\ UNCHANGED <<mapperVars, missingVars, detectVars, adaptVars, servVars>>

NextMapper == MapearFamilia \/ ConverterFamilias \/ AnalisarArquivo \/ DerivarMapeado

SpecMapper == InitMapper /\ [][NextMapper]_vars

-----------------------------------------------------------------------------
(* The joins of family and respondent: AdaptadorDadosReais.juntar_dados,     *)
(* converter_e_mesclar_familias_pessoas, mesclar_familia_pessoa              *)

\* A raw person table is [cols, rows] as a raw family table.  The files give
\* the codes as numbers; converter_e_mesclar_familias_pessoas reads the same
\* codes as quoted text, which the model holds as the number they spell.

\* largest number of families of a family file
MaxFamRows == 3
\* largest number of persons of a person file
MaxPesRows == 4

\* the indexes i of a sequence of booleans with keep[i], in order
RECURSIVE IndicesOnde(_, _)
IndicesOnde(keep, i) ==
    IF i > Len(keep) THEN <<>>
    ELSE (IF keep[i] THEN <<i>> ELSE <<>>) \o IndicesOnde(keep, i + 1)

\* DataFrame.merge on one key: the pairs <<i, j>> of a left row i and a right
\* row j of equal key, in the order of the left rows and, within a left row,
\* of the right rows; with how='left' a left row without a match gives <<i, 0>>
RECURSIVE Merge(_, _, _, _)
Merge(lkeys, rkeys, how, i) ==
    IF i > Len(lkeys) THEN <<>>
    ELSE LET js == IndicesOnde([j \in DOMAIN rkeys |-> rkeys[j] = lkeys[i]], 1)
         IN  (IF js = <<>>
              THEN (IF how = "left" THEN << <<i, 0>> >> ELSE <<>>)
              ELSE [n \in DOMAIN js |-> <<i, js[n]>>])
             \o Merge(lkeys, rkeys, how, i + 1)

\* df_pessoa[df_pessoa['cod_parentesco_rf_pessoa'] == 1]
Responsaveis(pes) ==
    SelectRows(pes.rows,
               [i \in DOMAIN pes.rows |-> pes.rows[i]["cod_parentesco_rf_pessoa"] = Fin(1)])

\* cod_sexo.map({1: 'M', 2: 'F'})
TransformarSexo(x) ==
    CASE x = Fin(1) -> "M" [] x = Fin(2) -> "F" [] OTHER -> NullLabel

\* (cod_deficiencia != 1).astype(int)
TransformarDeficiencia(x) == BoolInt(x # Fin(1))

\* cod_trabalho.map({1: 1, 2: 0}).fillna(0).astype(int)
TransformarTrabalho(x) == IF x = Fin(1) THEN 1 ELSE 0

\* cod_curso.map(mapa).fillna(0).astype(int)
TransformarEscolaridade(x) ==
    CASE x = Fin(3) -> 1
      [] x \in {Fin(4), Fin(7)} -> 2
      [] x \in {Fin(5), Fin(8)} -> 3
      [] x = Fin(6) -> 5
      [] OTHER -> 0

\* agregar_pessoa_para_familia: the rows flagged as reference person, all of
\* them, with the transformed fields
AgregarPessoaParaFamilia(pes) ==
    LET rs == Responsaveis(pes)
    IN  [i \in DOMAIN rs |->
            [id_familia |-> rs[i]["id_familia"],
             idade |-> rs[i]["idade"],
             sexo |-> TransformarSexo(rs[i]["cod_sexo_pessoa"]),
             escolaridade |-> TransformarEscolaridade(rs[i]["cod_curso_frequenta_memb"]),
             possui_deficiencia |-> TransformarDeficiencia(rs[i]["cod_deficiencia_memb"]),
             situacao_trabalho |-> TransformarTrabalho(rs[i]["cod_trabalhou_memb"])]]

\* one row of the table juntar_dados returns: family row f, respondent r
LinhaJuntada(f, r) ==
    [id_familia |-> f["id_familia"],
     idade |-> FillNaCell(r["idade"], 0),
     sexo |-> r["sexo"],
     escolaridade |-> r["escolaridade"],
     renda_familiar |-> FillNaCell(f["vlr_renda_media_fam"], 0),
     qtd_pessoas_familia |-> FillNaCell(f["qtde_pessoas"], 1),
     possui_deficiencia |-> r["possui_deficiencia"],
     situacao_trabalho |-> r["situacao_trabalho"],
     tipo_moradia |-> FillNaCell(f["cod_especie_domic_fam"], 1),
     acesso_agua |-> BoolInt(f["cod_abaste_agua_domic_fam"] = Fin(1)),
     acesso_esgoto |-> TransformarEsgoto(f["cod_escoa_sanitario_domic_fam"]),
     recebe_bolsa_familia |-> f["marc_pbf"],
     cod_municipio |-> f["cd_ibge"]]

ColunasFinais ==
    {"id_familia", "idade", "sexo", "escolaridade", "renda_familiar",
     "qtd_pessoas_familia", "possui_deficiencia", "situacao_trabalho",
     "tipo_moradia", "acesso_agua", "acesso_esgoto", "recebe_bolsa_familia",
     "cod_municipio"}

\* juntar_dados(df_familia, df_pessoa): inner join on id_familia
JuntarDados(fam, pes) ==
    LET resp == AgregarPessoaParaFamilia(pes)
        pares == Merge(Column(fam, "id_familia"),
                       [j \in DOMAIN resp |-> resp[j]["id_familia"]], "inner", 1)
    IN  [cols |-> ColunasFinais,
         rows |-> [n \in DOMAIN pares |->
                     LinhaJuntada(fam.rows[pares[n][1]], resp[pares[n][2]])]]

\* [status, via, chave, tabela]: what a join returned; chave is the column
\* that holds the household id in tabela
NaoJuntado == [status |-> "none", via |-> "", chave |-> "", tabela |-> NoTable]

\* one family row of df_final of converter_e_mesclar_familias_pessoas
LinhaFamiliaConversor(f) ==
    LET renda == FillNaCell(f["vlr_renda_media_fam"], 0)
        qtd   == FillNaCell(f["qtde_pessoas"], 1)
    IN  [cod_municipio |-> f["cd_ibge"],
         id_familia |-> f["id_familia"],
         renda_familiar |-> renda,
         qtd_pessoas_familia |-> qtd,
         renda_per_capita |-> TrueDiv(renda, qtd),
         tipo_moradia |-> FillNaCell(f["cod_especie_domic_fam"], 1),
         acesso_agua |-> BoolInt(f["cod_agua_canalizada_fam"] = Fin(1)),
         acesso_esgoto |-> AcessoEsgotoMesclado(f["cod_escoa_sanitario_domic_fam"]),
         recebe_bolsa_familia |-> FillNaCell(f["marc_pbf"], 0)]

\* the person columns of a merged row: those of the reference person r, or
\* nulls for a family without a match (r = 0), then the fillna of each
PessoaConversor(rs, j) ==
    LET cel(c) == IF j = 0 THEN NaN ELSE rs[j][c]
    IN  [idade |-> FillNaCell(cel("idade"), 35),
         sexo |-> (CASE cel("cod_sexo_pessoa") = Fin(1) -> "M"
                     [] cel("cod_sexo_pessoa") = Fin(2) -> "F"
                     [] OTHER -> "F"),
         escolaridade |-> FillNaCell(cel("cod_curso_frequentou_pessoa_memb"), 1),
         situacao_trabalho |-> FillNaCell(cel("cod_trabalhou_memb"), 0),
         possui_deficiencia |->
            BoolInt(IsFinite(cel("cod_deficiencia_memb")) /\ cel("cod_deficiencia_memb").v > 0)]

\* converter_e_mesclar_familias_pessoas: left join of the families with the
\* reference persons on id_familia, then the rows without municipality or
\* per-capita income are dropped
ConverterEMesclarFamiliasPessoas(fam, pes) ==
    LET rs == Responsaveis(pes)
        pares == Merge(Column(fam, "id_familia"),
                       [j \in DOMAIN rs |-> rs[j]["id_familia"]], "left", 1)
        linhas == [n \in DOMAIN pares |->
                      LET f == LinhaFamiliaConversor(fam.rows[pares[n][1]])
                          q == PessoaConversor(rs, pares[n][2])
                      IN  [c \in DOMAIN f \cup DOMAIN q |->
                              IF c \in DOMAIN q THEN q[c] ELSE f[c]]]
        validas == [n \in DOMAIN linhas |->
                      /\ IsFinite(linhas[n]["cod_municipio"])
                      /\ linhas[n]["cod_municipio"].v > 0
                      /\ ~IsNull(linhas[n]["renda_per_capita"])]
    IN  [cols |-> {"cod_municipio", "id_familia", "idade", "sexo", "escolaridade",
                   "renda_familiar", "qtd_pessoas_familia", "renda_per_capita",
                   "possui_deficiencia", "situacao_trabalho", "tipo_moradia",
                   "acesso_agua", "acesso_esgoto", "recebe_bolsa_familia"},
         rows |-> SelectRows(linhas, validas)]

\* mapear_cadunico_pessoa(df): the reference persons, with the columns of
\* mapeamento that the file has
MapearCadunicoPessoa(pes) ==
    LET rs == IF "cod_parentesco_rf_pessoa" \in pes.cols THEN Responsaveis(pes) ELSE pes.rows
        destinos == { m[2] : m \in {x \in MapeamentoPessoa : x[1] \in pes.cols} }
        origem(d) == (CHOOSE m \in MapeamentoPessoa : m[2] = d)[1]
    IN  [cols |-> destinos,
         rows |-> [i \in DOMAIN rs |->
                     [d \in destinos |->
                        CASE d = "sexo" ->
                                (IF rs[i][origem(d)] = Fin(2) THEN "F" ELSE "M")
                          [] d = "situacao_trabalho" ->
                                (IF rs[i][origem(d)] = Fin(1) THEN 2 ELSE 0)
                          [] OTHER -> rs[i][origem(d)]]]]

\* mesclar_familia_pessoa(df_familia, df_pessoa): left join of the mapped
\* families with the mapped persons, left_on cod_municipio, right_on
\* cod_familia; a person column whose name the family table has too gets the
\* suffix _pessoa
MesclarFamiliaPessoa(famm, pesm) ==
    IF "cod_familia" \notin pesm.cols THEN famm
    ELSE LET pares == Merge(Column(famm, "cod_municipio"),
                            Column(pesm, "cod_familia"), "left", 1)
             nome(c) == CASE c = "idade" -> "idade_pessoa"
                          [] c = "sexo" -> "sexo_pessoa"
                          [] c = "escolaridade" -> "escolaridade_pessoa"
                          [] c = "situacao_trabalho" -> "situacao_trabalho_pessoa"
                          [] OTHER -> c
             novas == { nome(c) : c \in pesm.cols }
         IN  [cols |-> famm.cols \cup novas,
              rows |-> [n \in DOMAIN pares |->
                          [k \in famm.cols \cup novas |->
                             IF k \in famm.cols THEN famm.rows[pares[n][1]][k]
                             ELSE IF pares[n][2] = 0 THEN NaN
                             ELSE pesm.rows[pares[n][2]][CHOOSE c \in pesm.cols : nome(c) = k]]]]

-----------------------------------------------------------------------------
(* processar_amostra and processar_completo_chunks *)

\* pd.read_csv(path, nrows=n): the first n rows of the file
PrimeirasLinhas(t, n) == [t EXCEPT !.rows = SubSeq(t.rows, 1, Min(n, Len(t.rows)))]

\* processar_amostra(n_registros): n families, 3*n persons, joined and scored
\* as one batch
ProcessarAmostra(fam, pes, n) ==
    AdaptadorGerarFeatures(JuntarDados(PrimeirasLinhas(fam, n), PrimeirasLinhas(pes, 3 * n)))

\* A variant of the chunk step that scores a chunk with the statistics of the
\* whole file: the rows of the chunk's households in the table scored at once.
ProcessarChunkGlobal(fam, pes, p, size) ==
    LET todo == AdaptadorGerarFeatures(JuntarDados(fam, PrimeirasLinhas(pes, 3 * size)))
        ids == { fam.rows[i]["id_familia"] : i \in (p + 1)..Min(p + size, Len(fam.rows)) }
    IN  [todo EXCEPT !.rows =
            SelectRows(todo.rows,
                       [i \in DOMAIN todo.rows |-> todo.rows[i]["id_familia"] \in ids])]

\* one iteration of the loop of processar_completo_chunks: the chunk of size
\* families after the first p, the first 3*size persons of the person file,
\* joined and scored as a batch of its own
ProcessarChunk(fam, pes, p, size) ==
    LET chunk_fam == [fam EXCEPT !.rows = SubSeq(fam.rows, p + 1, Min(p + size, Len(fam.rows)))]
    IN  AdaptadorGerarFeatures(JuntarDados(chunk_fam, PrimeirasLinhas(pes, 3 * size)))

\* A variant of to_csv that writes the header whatever the header argument is.
LinhasCsvComCabecalho(t, header) ==
    << [header |-> TRUE, cols |-> t.cols, row |-> <<>>] >>
    \o [i \in DOMAIN t.rows |-> [header |-> FALSE, cols |-> {}, row |-> t.rows[i]]]

\* df_chunk.to_csv(output_path, mode, header, index=False): the lines written
LinhasCsv(t, header) ==
    (IF header THEN << [header |-> TRUE, cols |-> t.cols, row |-> <<>>] >> ELSE <<>>)
    \o [i \in DOMAIN t.rows |-> [header |-> FALSE, cols |-> {}, row |-> t.rows[i]]]

-----------------------------------------------------------------------------
(* Inputs and drivers of the joins and of the chunked processing *)

Pessoa(fam, par, idade, sexo, def, trab, curso) ==
    [id_familia |-> Fin(fam), cod_familiar_fam |-> Fin(fam),
     cod_parentesco_rf_pessoa |-> Fin(par),
     idade |-> idade, idade_pessoa |-> idade,
     cod_sexo_pessoa |-> sexo, cod_deficiencia_memb |-> def,
     cod_trabalhou_memb |-> trab, cod_trabalho_12_meses_pessoa |-> trab,
     cod_curso_frequenta_memb |-> curso, cod_curso_frequenta_pessoa |-> curso,
     cod_curso_frequentou_pessoa_memb |-> curso]

\* persons of the families below: two rows flagged as reference person of
\* family 3, a reference person and another member for family 7, a reference
\* person with nulls for family 8
PessoasDoArquivo ==
    { Pessoa(3, 1, Fin(40), Fin(1), Fin(1), Fin(1), Fin(5)),
      Pessoa(3, 1, Fin(70), Fin(2), Fin(2), Fin(2), Fin(1)),
      Pessoa(7, 1, Fin(40), Fin(2), Fin(1), Fin(2), Fin(6)),
      Pessoa(7, 2, Fin(10), Fin(1), Fin(1), NaN, Fin(3)),
      Pessoa(8, 1, NaN, NaN, NaN, Fin(1), NaN) }

\* families of the file: raw rows whose per-capita income is a whole number
FamiliasDoArquivo == { LinhaBruta(k) : k \in {3, 7, 8} }

\* chunk_size
TamanhosChunk == {1, 2}

\* the sequences of n distinct elements of a set
Arranjos(S, n) == { s \in [1..n -> S] : \A i, j \in 1..n : i # j => s[i] # s[j] }

\* what output_path holds before the run: nothing, or the lines of an older run
ArquivoAntigo ==
    << [header |-> TRUE, cols |-> {"id_familia"}, row |-> <<>>],
       [header |-> FALSE, cols |-> {}, row |-> [id_familia |-> Fin(0)]] >>

InitAdaptador ==
    /\ pc = "input"
    /\ \E n \in 1..MaxFamRows : \E fs \in Arranjos(FamiliasDoArquivo, n) :
          df_fam = [cols |-> RawCols, rows |-> fs]
    /\ \E n \in 0..MaxPesRows : \E ps \in Arranjos(PessoasDoArquivo, n) :
          df_pes = [cols |-> DOMAIN Pessoa(0, 0, NaN, NaN, NaN, NaN, NaN), rows |-> ps]
    /\ chunk_size \in TamanhosChunk
    /\ pos = 0
    /\ df_juncao = NaoJuntado
    /\ df_final = NoTable
    /\ df_chunks = <<>>
    /\ saida \in {<<>>, ArquivoAntigo}
    /\ FeaturesIdle
    /\ MissingIdle
    /\ DetectIdle
    /\ MapperIdle
    /\ ServIdle

\* df_completo = juntar_dados(df_fam, df_pes)
Juntar ==
    /\ pc = "input"
    /\ df_juncao' = [status |-> "ok", via |-> "juntar_dados", chave |-> "id_familia",
                     tabela |-> JuntarDados(df_fam, df_pes)]
    /\ pc' = "joined"
    /\ UNCHANGED <<df_fam, df_pes, chunk_size, pos, df_final, df_chunks, saida>>
    /\ UNCHANGED <<featureVars, missingVars, detectVars, mapperVars, servVars>>

\* converter_e_mesclar_familias_pessoas on the two files
ConverterEMesclar ==
    /\ pc = "input"
    /\ df_juncao' = [status |-> "ok", via |-> "converter_e_mesclar_familias_pessoas",
                     chave |-> "id_familia",
                     tabela |-> ConverterEMesclarFamiliasPessoas(df_fam, df_pes)]
    /\ pc' = "joined"
    /\ UNCHANGED <<df_fam, df_pes, chunk_size, pos, df_final, df_chunks, saida>>
    /\ UNCHANGED <<featureVars, missingVars, detectVars, mapperVars, servVars>>

\* mesclar_familia_pessoa(mapear_cadunico_familia(df_fam), mapear_cadunico_pessoa(df_pes))
Mesclar ==
    /\ pc = "input"
    /\ df_juncao' = [status |-> "ok", via |-> "mesclar_familia_pessoa",
                     chave |-> "cod_municipio",
                     tabela |-> MesclarFamiliaPessoa(MapearCadunicoFamilia(df_fam).tabela,
                                                     MapearCadunicoPessoa(df_pes))]
    /\ pc' = "joined"
    /\ UNCHANGED <<df_fam, df_pes, chunk_size, pos, df_final, df_chunks, saida>>
    /\ UNCHANGED <<featureVars, missingVars, detectVars, mapperVars, servVars>>

\* df_final = processar_amostra(n_registros), n_registros the number of
\* families of the file: the whole file as one batch
Amostra ==
    /\ pc = "input"
    /\ df_final' = ProcessarAmostra(df_fam, df_pes, Len(df_fam.rows))
    /\ pc' = "chunks"
    /\ UNCHANGED <<df_fam, df_pes, chunk_size, pos, df_juncao, df_chunks, saida>>
    /\ UNCHANGED <<featureVars, missingVars, detectVars, mapperVars, servVars>>

\* one iteration of "for chunk_fam in pd.read_csv(..., chunksize=chunk_size)":
\* the first chunk writes the file with its header, the others append
Chunk ==
    /\ pc = "chunks"
    /\ pos < Len(df_fam.rows)
    /\ LET df_chunk == ProcessarChunk(df_fam, df_pes, pos, chunk_size)
       IN  /\ df_chunks' = Append(df_chunks, df_chunk)
           /\ saida' = IF pos = 0 THEN LinhasCsv(df_chunk, TRUE)
                       ELSE saida \o LinhasCsv(df_chunk, FALSE)
    /\ pos' = Min(pos + chunk_size, Len(df_fam.rows))
    /\ UNCHANGED <<pc, df_fam, df_pes, chunk_size, df_juncao, df_final>>
    /\ UNCHANGED <<featureVars, missingVars, detectVars, mapperVars, servVars>>

NextAdaptador == Juntar \/ ConverterEMesclar \/ Mesclar \/ Amostra \/ Chunk

SpecAdaptador == InitAdaptador /\ [][NextAdaptador]_vars

-----------------------------------------------------------------------------
(* The normalisation in binary floating point *)

\* mean() and std() work on float64 cells.  A float of the model is
\* [m, e], the number m * 2^e, with |m| < 2^Precisao: the format of a double
\* with Precisao significant bits in place of 53 and no bound on the exponent.
\* Every operation rounds its exact result to the nearest float, ties to the
\* even significand, as IEEE 754 does.

\* significant bits of a float of the model
Precisao == 4
\* largest number of rows of a batch of incomes
MaxLote == 3

RECURSIVE Pow2(_)
Pow2(k) == IF k <= 0 THEN 1 ELSE 2 * Pow2(k - 1)

FZero == [m |-> 0, e |-> 0]

\* the float nearest to (num / den) * 2^e, num >= 0 and den > 0
RECURSIVE RoundPos(_, _, _)
RoundPos(num, den, e) ==
    IF num = 0 THEN FZero
    ELSE IF num < Pow2(Precisao - 1) * den THEN RoundPos(2 * num, den, e - 1)
    ELSE IF num >= Pow2(Precisao) * den THEN RoundPos(num, 2 * den, e + 1)
    ELSE LET q == num \div den
             r == num - q * den
             m == IF 2 * r > den \/ (2 * r = den /\ q % 2 = 1) THEN q + 1 ELSE q
         IN  IF m = Pow2(Precisao) THEN [m |-> Pow2(Precisao - 1), e |-> e + 1]
             ELSE [m |-> m, e |-> e]

\* the float nearest to (num / den) * 2^e, den > 0
FRound(num, den, e) ==
    IF num < 0 THEN [RoundPos(-num, den, e) EXCEPT !.m = -@] ELSE RoundPos(num, den, e)

\* the integer k as a float
FInt(k) == FRound(k, 1, 0)

\* a + b, a - b, a * b and a / n (n a positive integer), each rounded
FAdd(a, b) ==
    LET e == Min(a.e, b.e)
    IN  FRound(a.m * Pow2(a.e - e) + b.m * Pow2(b.e - e), 1, e)
FSub(a, b) == FAdd(a, [b EXCEPT !.m = -@])
FMul(a, b) == FRound(a.m * b.m, 1, a.e + b.e)
FDivInt(a, n) == FRound(a.m, n, a.e)

\* the sum of the cells, added one by one from the first
RECURSIVE FSum(_, _)
FSum(col, acc) == IF col = <<>> THEN acc ELSE FSum(Tail(col), FAdd(acc, Head(col)))

\* Series.mean(): sum() / count
FMean(col) == FDivInt(FSum(col, FZero), Len(col))

\* Series.var(ddof=1) as pandas computes it: the squared differences to the
\* mean, summed and divided by count - 1 (guarded: count >= 2)
FVar(col) ==
    LET avg == FMean(col)
        sqr == [i \in DOMAIN col |-> FMul(FSub(avg, col[i]), FSub(avg, col[i]))]
    IN  FDivInt(FSum(sqr, FZero), Len(col) - 1)

\* (x - mean()) / std(), cell by cell, in units of 1/ZScale; std() is NaN for
\* fewer than two cells, and a zero std() gives 0/0 = NaN or x/0 = +-inf.
\* The roundings of the square root and of the last division are below the
\* resolution 1/ZScale.
RendaPerCapitaNormFloat(col) ==
    IF Len(col) < 2 THEN [i \in DOMAIN col |-> NaN]
    ELSE LET avg == FMean(col)
             var == FVar(col)
         IN  [i \in DOMAIN col |->
                LET d == FSub(col[i], avg)
                    k == 2 * d.e - var.e
                    num == ZScale * ZScale * d.m * d.m * (IF k > 0 THEN Pow2(k) ELSE 1)
                    den == var.m * (IF k < 0 THEN Pow2(-k) ELSE 1)
                IN  IF var.m = 0
                    THEN (IF d.m = 0 THEN NaN ELSE IF d.m > 0 THEN PosInf ELSE NegInf)
                    ELSE Fin((IF d.m < 0 THEN -1 ELSE 1) * ISqrt(num \div den))]

\* per-capita incomes of the batches: whole numbers of few bits, so that every
\* input cell is a float of the model
RendasDoLote == {6, 7, 11, 13}

\* the household whose flags enter the scores of the batch
FamiliaDoLote == Familia(1, 40, 3, 12, 1, 0, 2, 1, 1)

\* the scores of a batch of n such households with the normalised incomes norm
ScoreDoLote(norm) ==
    LET t == GerarFeaturesVulnerabilidade(
                 Tabela([i \in DOMAIN norm |-> FamiliaDoLote], {}, 0), BolsaNone)
    IN  ScoreVulnerabilidade(t, norm)

InitNorma ==
    /\ pc = "input"
    /\ \E n \in 1..MaxLote : \E xs \in [1..n -> RendasDoLote] :
          lote = [i \in 1..n |-> FInt(xs[i])]
    /\ lote_norm = <<>>
    /\ lote_score = <<>>
    /\ FeaturesIdle
    /\ MissingIdle
    /\ DetectIdle
    /\ GovIdle
    /\ ModeloIdle
    /\ ApiIdle

\* the block of gerar_features_vulnerabilidade that normalises the income and
\* sums the score, on float64 cells
Normalizar ==
    /\ pc = "input"
    /\ lote_norm' = RendaPerCapitaNormFloat(lote)
    /\ lote_score' = ScoreDoLote(RendaPerCapitaNormFloat(lote))
    /\ pc' = "normalised"
    /\ UNCHANGED <<lote, featureVars, missingVars, detectVars, govVars, modeloVars, apiVars>>

NextNorma == Normalizar

SpecNorma == InitNorma /\ [][NextNorma]_vars

-----------------------------------------------------------------------------
(* ModeloVulnerabilidade: treinar, predizer, salvar_modelo, carregar_modelo *)

\* self.modelo is "None", "unfitted" (a classifier object whose fit did not
\* complete) or "fitted"; self.scaler is "unfitted" or "fitted".
\* The outcome of a call is "ok" or the exception it raised.

\* predizer(X) and predizer_probabilidade(X): the test of self.modelo, then
\* scaler.transform, then the call of the classifier
Predicao(o) ==
    IF modelo[o] = "None" THEN "ValueError: Modelo não foi treinado ainda"
    ELSE IF scaler[o] = "unfitted" \/ modelo[o] = "unfitted" THEN "NotFittedError"
    ELSE "ok"

InitModelo ==
    /\ pc = "objects"
    /\ ModeloIdle
    /\ FeaturesIdle
    /\ MissingIdle
    /\ DetectIdle
    /\ GovIdle
    /\ FloatIdle
    /\ ApiIdle

\* treinar(X, y) of a subclass, to its return
Treinar(o) ==
    /\ modelo' = [modelo EXCEPT ![o] = "fitted"]
    /\ scaler' = [scaler EXCEPT ![o] = "fitted"]
    /\ concluiu' = [concluiu EXCEPT ![o] = TRUE]
    /\ resposta' = [op |-> "treinar", obj |-> o, res |-> "ok"]
    /\ UNCHANGED <<pc, disco>>
    /\ UNCHANGED <<featureVars, missingVars, detectVars, govVars, floatVars, apiVars>>

\* treinar(X, y) raising in train_test_split (a class with one member cannot
\* be stratified): self.modelo and self.scaler are not assigned yet
TreinarFalhaNaDivisao(o) ==
    /\ resposta' = [op |-> "treinar", obj |-> o, res |-> "ValueError"]
    /\ UNCHANGED <<pc, modelo, scaler, disco, concluiu>>
    /\ UNCHANGED <<featureVars, missingVars, detectVars, govVars, floatVars, apiVars>>

\* treinar(X, y) raising in self.modelo.fit: the scaler is fitted and
\* self.modelo holds the classifier that was not fitted
TreinarFalhaNoFit(o) ==
    /\ modelo' = [modelo EXCEPT ![o] = "unfitted"]
    /\ scaler' = [scaler EXCEPT ![o] = "fitted"]
    /\ resposta' = [op |-> "treinar", obj |-> o, res |-> "ValueError"]
    /\ UNCHANGED <<pc, disco, concluiu>>
    /\ UNCHANGED <<featureVars, missingVars, detectVars, govVars, floatVars, apiVars>>

\* predizer(X)
Predizer(o) ==
    /\ resposta' = [op |-> "predizer", obj |-> o, res |-> Predicao(o)]
    /\ UNCHANGED <<pc, modelo, scaler, disco, concluiu>>
    /\ UNCHANGED <<featureVars, missingVars, detectVars, govVars, floatVars, apiVars>>

\* predizer_probabilidade(X)
PredizerProbabilidade(o) ==
    /\ resposta' = [op |-> "predizer_probabilidade", obj |-> o, res |-> Predicao(o)]
    /\ UNCHANGED <<pc, modelo, scaler, disco, concluiu>>
    /\ UNCHANGED <<featureVars, missingVars, detectVars, govVars, floatVars, apiVars>>

\* salvar_modelo(caminho): joblib.dump of modelo_data, whatever self.modelo is
SalvarModelo(o) ==
    /\ disco' = [existe |-> TRUE, modelo |-> modelo[o], scaler |-> scaler[o]]
    /\ resposta' = [op |-> "salvar_modelo", obj |-> o, res |-> "ok"]
    /\ UNCHANGED <<pc, modelo, scaler, concluiu>>
    /\ UNCHANGED <<featureVars, missingVars, detectVars, govVars, floatVars, apiVars>>

\* carregar_modelo(caminho): joblib.load raises when there is no file;
\* otherwise the attributes are taken from modelo_data
CarregarModelo(o) ==
    /\ IF ~disco.existe
       THEN /\ resposta' = [op |-> "carregar_modelo", obj |-> o, res |-> "FileNotFoundError"]
            /\ UNCHANGED <<modelo, scaler, concluiu>>
       ELSE /\ modelo' = [modelo EXCEPT ![o] = disco.modelo]
            /\ scaler' = [scaler EXCEPT ![o] = disco.scaler]
            /\ concluiu' = [concluiu EXCEPT ![o] = TRUE]
            /\ resposta' = [op |-> "carregar_modelo", obj |-> o, res |-> "ok"]
    /\ UNCHANGED <<pc, disco>>
    /\ UNCHANGED <<featureVars, missingVars, detectVars, govVars, floatVars, apiVars>>

NextModelo ==
    \E o \in Objetos :
        \/ Treinar(o)
        \/ TreinarFalhaNaDivisao(o)
        \/ TreinarFalhaNoFit(o)
        \/ Predizer(o)
        \/ PredizerProbabilidade(o)
        \/ SalvarModelo(o)
        \/ CarregarModelo(o)

SpecModelo == InitModelo /\ [][NextModelo]_vars

-----------------------------------------------------------------------------
(* The API module: startup_event and the request handlers *)

\* what the two model paths can hold: no file, the modelo_data that
\* salvar_modelo writes for a trained object, the one it writes for an object
\* that was never trained ('modelo': None), a dict that also has a 'features'
\* entry, and a file joblib.load or ['modelo'] raises on
ArquivosDeModelo == {"ausente", "treinado", "nao_treinado", "com_features", "corrompido"}

\* rf_data['modelo']
ModeloDoArquivo(arq) == IF arq = "nao_treinado" THEN "None" ELSE "loaded"

\* rf_data.get('features', None)
FeaturesDoArquivo(arq) == IF arq = "com_features" THEN "names" ELSE "None"

\* MetaClassificadorLLM(): the object without or with its Gemini model, or an
\* exception of the client library
ConstrutoresLLM == {"sem_llm", "com_llm", "erro"}

\* the classes of the four-tier target: the values of target_mapping
ClassesAlvo == { TargetMapping(l).v : l \in Niveis }

\* classes = {0: "Baixa", 1: "Média", 2: "Alta"} of predict and analyze
Classes == (0 :> "Baixa") @@ (1 :> "Média") @@ (2 :> "Alta")

\* vulnerabilidade_map of the file endpoints
VulnerabilidadeMap ==
    (0 :> "Baixa") @@ (1 :> "Média") @@ (2 :> "Alta") @@ (3 :> "Muito Alta")

\* Series.map(vulnerabilidade_map): a class that is not a key maps to NaN
MapearClasse(c) == IF c \in DOMAIN VulnerabilidadeMap THEN VulnerabilidadeMap[c] ELSE "nan"

\* the globals as a handler reads them
Globais ==
    [rf_model |-> rf_model, xgb_model |-> xgb_model,
     meta_classificador |-> meta_classificador]

\* A variant of the guard that answers 503 only when both models are missing.
ModelosAusentesUmSo == rf_model = "None" /\ xgb_model = "None"

\* rf_model is None or xgb_model is None
ModelosAusentes == rf_model = "None" \/ xgb_model = "None"

\* rf_model is None or xgb_model is None or meta_classificador is None
AlgumAusente == ModelosAusentes \/ meta_classificador = "None"

\* an answer with no prediction in it
Responder(ep, st, erro, ch) ==
    [endpoint |-> ep, status |-> st, erro |-> erro, chamados |-> ch,
     modelos |-> Globais, pred_rf |-> -1, pred_xgb |-> -1,
     rf_label |-> "", xgb_label |-> "", analise_llm |-> ""]

\* raise HTTPException(503) of the guard in front of the try block
Indisponivel(ep) == Responder(ep, 503, "", {})

\* rf_model.predict(X), then xgb_model.predict(X): a method call on None
\* raises AttributeError at the first global that is None
ChamarModelos ==
    IF rf_model = "None"
    THEN [erro |-> "AttributeError", chamados |-> {"rf_model"}]
    ELSE IF xgb_model = "None"
         THEN [erro |-> "AttributeError", chamados |-> {"rf_model", "xgb_model"}]
         ELSE [erro |-> "", chamados |-> {"rf_model", "xgb_model"}]

\* the body of predict and analyze_with_llm from the predictions to the
\* labels: classes[pred] raises KeyError for a class that is not a key, and
\* except Exception turns every error into a 500
PreverERotular(ep, pr, px) ==
    LET ch == ChamarModelos
    IN  IF ch.erro # ""
        THEN Responder(ep, 500, ch.erro, ch.chamados)
        ELSE IF pr \notin DOMAIN Classes \/ px \notin DOMAIN Classes
             THEN [Responder(ep, 500, "KeyError", ch.chamados)
                      EXCEPT !.pred_rf = pr, !.pred_xgb = px]
             ELSE [Responder(ep, 200, "", ch.chamados)
                      EXCEPT !.pred_rf = pr, !.pred_xgb = px,
                             !.rf_label = Classes[pr], !.xgb_label = Classes[px]]

\* the part of analyze_with_llm after the labels: if meta_classificador:
\* analisar_com_llm(prompt)
ComAnaliseLLM(r) ==
    IF r.status = 200 /\ meta_classificador # "None"
    THEN [r EXCEPT !.chamados = @ \cup {"meta_classificador"},
                   !.analise_llm = IF meta_classificador = "com_llm"
                                   THEN "texto" ELSE "indisponivel"]
    ELSE r

\* gerar_analise_llm_municipios: meta_classificador and meta_classificador.model
AnaliseMunicipios(r) ==
    IF meta_classificador = "None"
    THEN [r EXCEPT !.analise_llm = "indisponivel"]
    ELSE [r EXCEPT !.chamados = @ \cup {"meta_classificador"},
                   !.analise_llm = IF meta_classificador = "com_llm"
                                   THEN "texto" ELSE "indisponivel"]

\* the body of the file endpoints from the predictions on: the classes go
\* through vulnerabilidade_map
PreverEMapear(ep, pr, px) ==
    LET ch == ChamarModelos
    IN  IF ch.erro # ""
        THEN Responder(ep, 500, ch.erro, ch.chamados)
        ELSE [Responder(ep, 200, "", ch.chamados)
                 EXCEPT !.pred_rf = pr, !.pred_xgb = px,
                        !.rf_label = MapearClasse(pr), !.xgb_label = MapearClasse(px)]

\* the files a request can name under data/
ArquivosDeDados == {"ausente", "ilegivel", "sem_municipio", "valido"}

InitApi ==
    /\ pc = "api"
    /\ ApiIdle
    /\ FeaturesIdle
    /\ MissingIdle
    /\ DetectIdle
    /\ GovIdle
    /\ FloatIdle
    /\ ModeloIdle

\* startup_event: an exception leaves the globals assigned so far and ends
\* the event with an HTTPException
StartupEvent ==
    /\ pc = "api"
    /\ iniciado = "no"
    /\ \E rf_arq \in ArquivosDeModelo, xgb_arq \in ArquivosDeModelo,
          llm \in ConstrutoresLLM :
         LET rf_lido  == rf_arq \notin {"ausente", "corrompido"}
             falha1   == rf_arq = "corrompido"
             fn1      == IF rf_lido THEN FeaturesDoArquivo(rf_arq) ELSE feature_names
             xgb_lido == ~falha1 /\ xgb_arq \notin {"ausente", "corrompido"}
             falha2   == falha1 \/ xgb_arq = "corrompido"
             falha3   == falha2 \/ llm = "erro"
         IN  /\ rf_model' = IF rf_lido THEN ModeloDoArquivo(rf_arq) ELSE rf_model
             /\ xgb_model' = IF xgb_lido THEN ModeloDoArquivo(xgb_arq) ELSE xgb_model
             /\ feature_names' = IF xgb_lido /\ fn1 = "None"
                                 THEN FeaturesDoArquivo(xgb_arq) ELSE fn1
             /\ meta_classificador' = IF falha3 THEN meta_classificador ELSE llm
             /\ iniciado' = IF falha3 THEN "failed" ELSE "ok"
    /\ UNCHANGED <<pc, api_resposta>>
    /\ UNCHANGED <<featureVars, missingVars, detectVars, govVars, floatVars, modeloVars>>

\* GET /health
HealthCheck ==
    /\ pc = "api"
    /\ api_resposta' = Responder("/health", 200, "", {})
    /\ UNCHANGED <<pc, rf_model, xgb_model, feature_names, meta_classificador, iniciado>>
    /\ UNCHANGED <<featureVars, missingVars, detectVars, govVars, floatVars, modeloVars>>

\* GET /models
ListarModelos ==
    /\ pc = "api"
    /\ api_resposta' = Responder("/models", 200, "", {})
    /\ UNCHANGED <<pc, rf_model, xgb_model, feature_names, meta_classificador, iniciado>>
    /\ UNCHANGED <<featureVars, missingVars, detectVars, govVars, floatVars, modeloVars>>

\* POST /predict: pr and px are the classes the two models predict for the
\* household of the request
Predict ==
    /\ pc = "api"
    /\ \E pr \in ClassesAlvo, px \in ClassesAlvo :
          api_resposta' = IF ModelosAusentes
                          THEN Indisponivel("/predict")
                          ELSE PreverERotular("/predict", pr, px)
    /\ UNCHANGED <<pc, rf_model, xgb_model, feature_names, meta_classificador, iniciado>>
    /\ UNCHANGED <<featureVars, missingVars, detectVars, govVars, floatVars, modeloVars>>

\* POST /analyze
AnalyzeWithLLM ==
    /\ pc = "api"
    /\ \E pr \in ClassesAlvo, px \in ClassesAlvo :
          api_resposta' = IF ModelosAusentes
                          THEN Indisponivel("/analyze")
                          ELSE ComAnaliseLLM(PreverERotular("/analyze", pr, px))
    /\ UNCHANGED <<pc, rf_model, xgb_model, feature_names, meta_classificador, iniciado>>
    /\ UNCHANGED <<featureVars, missingVars, detectVars, govVars, floatVars, modeloVars>>

\* POST /predict-batch with n households: the loop derives the features from
\* the raw request fields, where the score needs vulnerabilidade_idade and the
\* request has no idade column, so the first household raises KeyError before
\* any prediction
PredictBatch ==
    /\ pc = "api"
    /\ \E n \in 0..1 :
          api_resposta' = IF ModelosAusentes
                          THEN Indisponivel("/predict-batch")
                          ELSE IF n = 0
                               THEN Responder("/predict-batch", 200, "", {})
                               ELSE Responder("/predict-batch", 500, "KeyError", {})
    /\ UNCHANGED <<pc, rf_model, xgb_model, feature_names, meta_classificador, iniciado>>
    /\ UNCHANGED <<featureVars, missingVars, detectVars, govVars, floatVars, modeloVars>>

\* GET /stats: hasattr(rf_model, 'metricas') is False for the estimators the
\* model files hold, so no attribute of a model is read
ObterEstatisticas ==
    /\ pc = "api"
    /\ api_resposta' = IF ModelosAusentes
                       THEN Indisponivel("/stats")
                       ELSE Responder("/stats", 200, "", {})
    /\ UNCHANGED <<pc, rf_model, xgb_model, feature_names, meta_classificador, iniciado>>
    /\ UNCHANGED <<featureVars, missingVars, detectVars, govVars, floatVars, modeloVars>>

\* GET /data/process/
ProcessarCsv ==
    /\ pc = "api"
    /\ \E arq \in ArquivosDeDados, pr \in ClassesAlvo, px \in ClassesAlvo :
          api_resposta' =
              IF ModelosAusentes THEN Indisponivel("/data/process/")
              ELSE IF arq = "ausente" THEN Responder("/data/process/", 404, "", {})
              ELSE IF arq = "ilegivel"
                   THEN Responder("/data/process/", 500, "Exception", {})
              ELSE LET ch == ChamarModelos
                   IN  IF ch.erro # ""
                       THEN Responder("/data/process/", 500, ch.erro, ch.chamados)
                       ELSE [Responder("/data/process/", 200, "", ch.chamados)
                                EXCEPT !.pred_rf = pr, !.pred_xgb = px]
    /\ UNCHANGED <<pc, rf_model, xgb_model, feature_names, meta_classificador, iniciado>>
    /\ UNCHANGED <<featureVars, missingVars, detectVars, govVars, floatVars, modeloVars>>

\* GET /data/analyze-municipality
AnalisarPorMunicipio ==
    /\ pc = "api"
    /\ \E arq \in ArquivosDeDados, pr \in ClassesAlvo, px \in ClassesAlvo :
          api_resposta' =
              IF AlgumAusente THEN Indisponivel("/data/analyze-municipality")
              ELSE IF arq = "ausente"
                   THEN Responder("/data/analyze-municipality", 404, "", {})
              ELSE IF arq = "ilegivel"
                   THEN Responder("/data/analyze-municipality", 500, "Exception", {})
              ELSE IF arq = "sem_municipio"
                   THEN Responder("/data/analyze-municipality", 400, "", {})
              ELSE LET r == PreverEMapear("/data/analyze-municipality", pr, px)
                   IN  IF r.status = 200 THEN AnaliseMunicipios(r) ELSE r
    /\ UNCHANGED <<pc, rf_model, xgb_model, feature_names, meta_classificador, iniciado>>
    /\ UNCHANGED <<featureVars, missingVars, detectVars, govVars, floatVars, modeloVars>>

\* GET /data/analyze-governo: a file without cod_municipio gets the default
\* 999999
AnalisarArquivoGovernoApi ==
    /\ pc = "api"
    /\ \E arq \in ArquivosDeDados, pr \in ClassesAlvo, px \in ClassesAlvo :
          api_resposta' =
              IF AlgumAusente THEN Indisponivel("/data/analyze-governo")
              ELSE IF arq = "ausente"
                   THEN Responder("/data/analyze-governo", 404, "", {})
              ELSE IF arq = "ilegivel"
                   THEN Responder("/data/analyze-governo", 500, "Exception", {})
              ELSE LET r == PreverEMapear("/data/analyze-governo", pr, px)
                   IN  IF r.status = 200 THEN AnaliseMunicipios(r) ELSE r
    /\ UNCHANGED <<pc, rf_model, xgb_model, feature_names, meta_classificador, iniciado>>
    /\ UNCHANGED <<featureVars, missingVars, detectVars, govVars, floatVars, modeloVars>>

NextApi ==
    \/ StartupEvent
    \/ HealthCheck
    \/ ListarModelos
    \/ Predict
    \/ AnalyzeWithLLM
    \/ PredictBatch
    \/ ObterEstatisticas
    \/ ProcessarCsv
    \/ AnalisarPorMunicipio
    \/ AnalisarArquivoGovernoApi

SpecApi == InitApi /\ [][NextApi]_vars

-----------------------------------------------------------------------------
(* Properties of the feature pipeline (SpecFeatures) *)

\* the classifier ran on df_features: the tier column was not in the input
Classificado == pc # "input" /\ "nivel_vulnerabilidade" \notin df.cols

\* the scorer ran too
Pontuado == Classificado /\ "score_vulnerabilidade" \notin df.cols

Rank(l) ==
    CASE l = "Baixa" -> 0
      [] l = "Média" -> 1
      [] l = "Alta" -> 2
      [] l = "Muito Alta" -> 3
      [] OTHER -> -1

ScoreOf(i) == df_features.rows[i]["score_vulnerabilidade"]
NivelOf(i) == df_features.rows[i]["nivel_vulnerabilidade"]

\* C1: every finite score gets exactly the tier of its interval,
\* (-inf,-0.5] Baixa, (-0.5,0] Media, (0,0.5] Alta, (0.5,+inf) Muito Alta, a cut
\* point belonging to the lower tier; a higher score never gets a lower tier.
C1_TierIntervals ==
    Classificado =>
        /\ \A i \in DOMAIN df_features.rows :
              IsFinite(ScoreOf(i)) =>
                 LET s == ScoreOf(i).v
                 IN  /\ NivelOf(i) \in Niveis
                     /\ (NivelOf(i) = "Baixa") <=> (2 * s <= -ZScale * 100)
                     /\ (NivelOf(i) = "Média") <=> (2 * s > -ZScale * 100 /\ s <= 0)
                     /\ (NivelOf(i) = "Alta") <=> (s > 0 /\ 2 * s <= ZScale * 100)
                     /\ (NivelOf(i) = "Muito Alta") <=> (2 * s > ZScale * 100)
        /\ \A i, j \in DOMAIN df_features.rows :
              (IsFinite(ScoreOf(i)) /\ IsFinite(ScoreOf(j)) /\ ScoreOf(i).v <= ScoreOf(j).v)
                 => Rank(NivelOf(i)) <= Rank(NivelOf(j))

\* C1 witness: a score exactly on the 0.5 cut point is Alta and the next
\* representable score above it is Muito Alta
C1_Witness ==
    /\ Classificado
    /\ \E i, j \in DOMAIN df_features.rows :
          /\ IsFinite(ScoreOf(i)) /\ 2 * ScoreOf(i).v = ZScale * 100
          /\ NivelOf(i) = "Alta"
          /\ IsFinite(ScoreOf(j)) /\ 2 * ScoreOf(j).v = ZScale * 100 + 2
          /\ NivelOf(j) = "Muito Alta"

\* C2: for every batch of one or more rows, after gerar_features_vulnerabilidade
\* every nivel_vulnerabilidade is one of the four labels, and every y of
\* preparar_dados_para_ml is in {0,1,2,3}.
C2_NivelSempreValido ==
    /\ (pc # "input" /\ df.cols = CanonicalCols) =>
          \A i \in DOMAIN df_features.rows : NivelOf(i) \in Niveis
    /\ (pc = "ml" /\ df.cols = CanonicalCols) =>
          /\ Xy.status = "ok"
          /\ \A i \in DOMAIN Xy.y : Xy.y[i] \in {Fin(0), Fin(1), Fin(2), Fin(3)}

\* the batch statistics of the finite per-capita incomes of df_features
RpcOf(i) == df_features.rows[i]["renda_per_capita"]
NormOf(i) == df_features.rows[i]["renda_per_capita_norm"]
RpcFinitos == {i \in DOMAIN df_features.rows : IsFinite(RpcOf(i))}
RpcSoma == SumSeq([i \in DOMAIN df_features.rows |-> IF i \in RpcFinitos THEN RpcOf(i).v ELSE 0])
RpcDesvio(i) == Cardinality(RpcFinitos) * RpcOf(i).v - RpcSoma
RpcQuadrados ==
    SumSeq([i \in DOMAIN df_features.rows |->
               IF i \in RpcFinitos THEN RpcDesvio(i) * RpcDesvio(i) ELSE 0])

\* C3: the score is -0.30*z + 0.20*age + -0.15*infra + 0.15*low education +
\* 0.20*precarious work + 0.10*overcrowding + 0.10*disability, z being the batch
\* z-score of the per-capita income (to the fixed-point resolution); z = -1 with
\* age, education and work flags set and the rest clear gives 0.85, Muito Alta.
C3_WeightedSum ==
    Pontuado =>
        \A i \in DOMAIN df_features.rows :
            LET r == df_features.rows[i]
            IN  IsFinite(NormOf(i)) =>
                /\ IsFinite(RpcOf(i))
                /\ LET z == NormOf(i).v
                       a == IF z < 0 THEN -z ELSE z
                       num == ZScale * ZScale * RpcDesvio(i) * RpcDesvio(i)
                                * (Cardinality(RpcFinitos) - 1)
                   IN  /\ (RpcDesvio(i) < 0 => z <= 0) /\ (RpcDesvio(i) > 0 => z >= 0)
                       /\ a * a * RpcQuadrados <= num
                       /\ num < (a + 1) * (a + 1) * RpcQuadrados
                /\ IsFinite(ScoreOf(i))
                /\ ScoreOf(i).v =
                      0 - 30 * NormOf(i).v
                      + ZScale * ( 20 * r["vulnerabilidade_idade"]
                                 - 15 * r["infraestrutura_adequada"]
                                 + 15 * r["escolaridade_baixa"]
                                 + 20 * r["situacao_trabalho_precaria"]
                                 + 10 * r["superlotacao"]
                                 + 10 * r["possui_deficiencia"] )
                /\ ( /\ NormOf(i).v = -ZScale
                     /\ r["vulnerabilidade_idade"] = 1 /\ r["escolaridade_baixa"] = 1
                     /\ r["situacao_trabalho_precaria"] = 1
                     /\ r["infraestrutura_adequada"] = 0 /\ r["superlotacao"] = 0
                     /\ r["possui_deficiencia"] = 0 )
                   => (ScoreOf(i).v = 85 * ZScale /\ NivelOf(i) = "Muito Alta")

\* C3 witness: the household of the example (z = -1, the three flags set) was
\* scored, next to a household with adequate infrastructure
C3_Witness ==
    /\ Pontuado
    /\ \E i, j \in DOMAIN df_features.rows :
          /\ IsFinite(NormOf(i)) /\ NormOf(i).v = -ZScale
          /\ df_features.rows[i]["vulnerabilidade_idade"] = 1
          /\ df_features.rows[i]["escolaridade_baixa"] = 1
          /\ df_features.rows[i]["situacao_trabalho_precaria"] = 1
          /\ df_features.rows[i]["infraestrutura_adequada"] = 0
          /\ df_features.rows[i]["superlotacao"] = 0
          /\ df_features.rows[i]["possui_deficiencia"] = 0
          /\ ScoreOf(i) = Fin(85 * ZScale)
          /\ IsFinite(ScoreOf(j)) /\ df_features.rows[j]["infraestrutura_adequada"] = 1

\* C4: after the deriver, renda_per_capita = renda_familiar /
\* max(qtd_pessoas_familia, 1) for every household: a size of zero counts as
\* one, so the result is always finite.
C4_RendaPerCapitaClamped ==
    (pc # "input" /\ "renda_per_capita" \notin df.cols) =>
        \A i \in DOMAIN df_features.rows :
            RpcOf(i) = Fin(df.rows[i]["renda_familiar"]
                              \div Max(df.rows[i]["qtd_pessoas_familia"], 1))

\* C5: gerar_features_vulnerabilidade applied to its own output returns a table
\* identical to that output.
C5_Idempotent == (pc = "rerun") => (df_rerun = df_features)

\* C5 witness: a rerun on a table whose score and tier the first run computed
\* from two or more rows, with a finite non-zero score among them
C5_Witness ==
    /\ pc = "rerun"
    /\ Pontuado
    /\ NRows(df_features) >= 2
    /\ \E i \in DOMAIN df_features.rows : IsFinite(ScoreOf(i)) /\ ScoreOf(i).v # 0
    /\ df_rerun = df_features

\* C6: whatever subset of the derived columns the input already has, the output
\* of gerar_features_vulnerabilidade has all eight derived columns.
C6_AllDerivedColumns ==
    (pc # "input") => (DerivedCols \subseteq df_features.cols)

\* C13: preparar_dados_para_ml returns an X whose columns are exactly the 14
\* fixed columns, plus recebe_bolsa_familia if and only if the input has that
\* column; no other input column (score, tier, normalised income, id) is in X;
\* X and y have one row per input row.
C13_FeatureColumns ==
    (pc = "ml" /\ Xy.status = "ok") =>
        LET fixas == {"idade", "escolaridade", "renda_per_capita",
                      "qtd_pessoas_familia", "possui_deficiencia",
                      "situacao_trabalho", "tipo_moradia", "acesso_agua",
                      "acesso_esgoto", "vulnerabilidade_idade",
                      "infraestrutura_adequada", "escolaridade_baixa",
                      "situacao_trabalho_precaria", "superlotacao"}
        IN  /\ Cardinality(fixas) = 14
            /\ Xy.X.cols = fixas \cup (df_features.cols \cap {"recebe_bolsa_familia"})
            /\ Xy.X.cols \cap {"score_vulnerabilidade", "nivel_vulnerabilidade",
                                "renda_per_capita_norm", "nis"} = {}
            /\ Len(Xy.X.rows) = Len(df_features.rows)
            /\ Len(Xy.y) = Len(df_features.rows)
            /\ \A i \in DOMAIN Xy.X.rows : \A c \in Xy.X.cols :
                    Xy.X.rows[i][c] = df_features.rows[i][c]

\* preparar_dados_para_ml returned for a table of several rows that carries
\* the cash-transfer flag, the score, the normalised income and the id
C13_Witness ==
    /\ pc = "ml"
    /\ Xy.status = "ok"
    /\ Len(df_features.rows) >= 2
    /\ {"recebe_bolsa_familia", "score_vulnerabilidade", "renda_per_capita_norm",
        "nis"} \subseteq df_features.cols
    /\ "recebe_bolsa_familia" \in Xy.X.cols

\* C21: every derived column that the input of gerar_features_vulnerabilidade
\* already has (per-capita income, the five flags, recebe_bolsa_familia, score
\* and tier) is returned with the values of the input, and the input table
\* itself is left as it was.
C21_PresentColumnsKept ==
    (pc \in {"features", "rerun", "ml"}) =>
        \A c \in PreCols \cap df.cols :
            /\ c \in df_features.cols
            /\ Column(df_features, c) = Column(df, c)

\* C21 witness: a table without tier that came with an overcrowding flag and a
\* per-capita income different from what the deriver would compute, and kept both
C21_Witness ==
    /\ pc = "features"
    /\ "nivel_vulnerabilidade" \notin df.cols
    /\ {"superlotacao", "renda_per_capita"} \subseteq df.cols
    /\ Column(df, "superlotacao") # Superlotacao(df)
    /\ Column(df, "renda_per_capita") # RendaPerCapita(df)
    /\ Column(df_features, "superlotacao") = Column(df, "superlotacao")
    /\ Column(df_features, "renda_per_capita") = Column(df, "renda_per_capita")
    /\ "nivel_vulnerabilidade" \in df_features.cols

\* C22: for an input without precomputed derived columns the deriver sets, in
\* every row, the age flag to (age < 18 or age > 65), the infrastructure flag
\* to (water and sewage), the low-education flag to (education <= 2) and the
\* precarious-employment flag to (employment <= 1), each as 0 or 1; ages 18
\* and 65 are not flagged, education 2 and employment 1 are.
C22_FlagDefinitions ==
    (pc = "features" /\ df.cols \cap DerivedCols = {}) =>
        \A i \in DOMAIN df.rows :
            LET r == df.rows[i]
                o == df_features.rows[i]
            IN  /\ o["vulnerabilidade_idade"] = IF r["idade"] < 18 \/ r["idade"] > 65 THEN 1 ELSE 0
                /\ o["infraestrutura_adequada"]
                      = IF r["acesso_agua"] = 1 /\ r["acesso_esgoto"] = 1 THEN 1 ELSE 0
                /\ o["escolaridade_baixa"] = IF r["escolaridade"] <= 2 THEN 1 ELSE 0
                /\ o["situacao_trabalho_precaria"] = IF r["situacao_trabalho"] <= 1 THEN 1 ELSE 0

\* C22 witness: a batch with ages 17, 18 and 65, education 2 and 3, employment
\* 1 and 2, and water with and without sewage, each flagged on its side
C22_Witness ==
    /\ pc = "features" /\ df.cols \cap DerivedCols = {}
    /\ \E i, j, k \in DOMAIN df.rows :
          /\ df.rows[i]["idade"] = 18 /\ df_features.rows[i]["vulnerabilidade_idade"] = 0
          /\ df.rows[j]["idade"] = 65 /\ df_features.rows[j]["vulnerabilidade_idade"] = 0
          /\ df.rows[k]["idade"] = 17 /\ df_features.rows[k]["vulnerabilidade_idade"] = 1
          /\ df.rows[j]["escolaridade"] = 2 /\ df_features.rows[j]["escolaridade_baixa"] = 1
          /\ df.rows[i]["escolaridade"] = 3 /\ df_features.rows[i]["escolaridade_baixa"] = 0
          /\ df.rows[k]["situacao_trabalho"] = 1
          /\ df_features.rows[k]["situacao_trabalho_precaria"] = 1
          /\ df.rows[i]["situacao_trabalho"] = 2
          /\ df_features.rows[i]["situacao_trabalho_precaria"] = 0
          /\ df.rows[i]["acesso_agua"] = 1 /\ df.rows[i]["acesso_esgoto"] = 0
          /\ df_features.rows[i]["infraestrutura_adequada"] = 0
          /\ df_features.rows[j]["infraestrutura_adequada"] = 1

\* C23: when the batch has zero variance in per-capita income (a single row,
\* or all per-capita incomes equal) gerar_features_vulnerabilidade raises no
\* error and gives every row of the batch a score that is not finite.
C23_ZeroVarianceNonFinite ==
    (pc = "normalised" /\ \A i, j \in DOMAIN lote : lote[i] = lote[j]) =>
        /\ Len(lote_score) = Len(lote)
        /\ \A i \in DOMAIN lote_score : ~IsFinite(lote_score[i])

-----------------------------------------------------------------------------
(* Properties of tratar_dados_faltantes (SpecMissing) *)

SemNulo(row, cs) == \A c \in cs : ~IsNull(row[c])

\* C7: after tratar_dados_faltantes with 'mediana', 'media' or 'moda' no null
\* cell is left in any numeric column, also when a column is entirely null.
C7_NoNullAfterFill ==
    (pc = "returned" /\ estrategia \in {"mediana", "media", "moda"}) =>
        \A i \in DOMAIN df_tratado.rows : SemNulo(df_tratado.rows[i], df_tratado.numeric)

\* the input rows that have no null
Completas == {i \in DOMAIN tabela.rows : SemNulo(tabela.rows[i], tabela.cols)}

\* C8: after 'remover' no null cell is left in any column, the result is
\* exactly the input rows without a null, in their original order, and the row
\* count does not grow.
C8_DropKeepsCompleteRows ==
    (pc = "returned" /\ estrategia = "remover") =>
        /\ df_tratado.cols = tabela.cols
        /\ \A j \in DOMAIN df_tratado.rows : SemNulo(df_tratado.rows[j], df_tratado.cols)
        /\ Len(df_tratado.rows) = Cardinality(Completas)
        /\ Len(df_tratado.rows) <= Len(tabela.rows)
        /\ \A j \in DOMAIN df_tratado.rows :
              \E i \in Completas :
                 /\ Cardinality({k \in Completas : k <= i}) = j
                 /\ df_tratado.rows[j] = tabela.rows[i]

\* C8 witness: a row with a null between two different complete rows was
\* dropped and the two complete rows kept their order
C8_Witness ==
    /\ pc = "returned" /\ estrategia = "remover"
    /\ Len(tabela.rows) = 3 /\ Completas = {1, 3}
    /\ \E c \in tabela.cols : ~IsNull(tabela.rows[2][c])
    /\ tabela.rows[1] # tabela.rows[3]
    /\ df_tratado.rows = <<tabela.rows[1], tabela.rows[3]>>

\* C9: a strategy name that is not one of the four recognised ones makes
\* tratar_dados_faltantes fail with an error instead of returning a table.
C9_UnknownStrategyRaises ==
    (pc # "input" /\ estrategia \notin Estrategias) => pc = "raised"

\* C20: tratar_dados_faltantes is idempotent: for every strategy and every
\* table, applying it with the same strategy to its own result returns a table
\* equal to that result.
C20_Idempotent ==
    (pc = "rerun") => df_retratado = df_tratado

\* C20 witness: a table with nulls in two rows of one numeric column went
\* through a filling strategy, which replaced them, and through it again
C20_Witness ==
    /\ pc = "rerun"
    /\ estrategia \in {"mediana", "media", "moda"}
    /\ \E c \in tabela.numeric :
          /\ Cardinality({i \in DOMAIN tabela.rows : IsNull(tabela.rows[i][c])}) >= 2
          /\ \A i \in DOMAIN df_tratado.rows : ~IsNull(df_tratado.rows[i][c])
    /\ df_tratado # tabela
    /\ df_retratado = df_tratado

-----------------------------------------------------------------------------
(* Properties of detectar_formato_arquivo (SpecDetect) *)

\* the configs under which the file reads and its header has a known signature
ConfigsReconhecidas ==
    {k \in DOMAIN Configs :
        /\ ReadCsv(arquivo, Configs[k]).ok
        /\ TipoPorColunas(ReadCsv(arquivo, Configs[k]).columns) # "desconhecido"}

\* C10: detection tries the configs in order until the header matches a known
\* signature, and the first config with a match wins; a comma-delimited UTF-8
\* file whose header has cd_ibge is detected as cadunico_familia with ','.
C10_FirstSignatureMatchWins ==
    (pc = "returned" /\ ConfigsReconhecidas # {}) =>
        LET k == CHOOSE c \in ConfigsReconhecidas : \A o \in ConfigsReconhecidas : c <= o
        IN  /\ info.separador = Configs[k].sep
            /\ info.encoding = Configs[k].encoding
            /\ info.tipo = TipoPorColunas(ReadCsv(arquivo, Configs[k]).columns)

\* C11: when none of the tried configurations gives a recognized column
\* signature, the detection ends with an error, and carregar_e_mapear_arquivo
\* returns no table for the file.
C11_UnrecognizedFails ==
    (pc \in {"raised", "loaded"} /\ ConfigsReconhecidas = {}) =>
        (pc = "raised" /\ carregado.status # "ok")

-----------------------------------------------------------------------------
(* Properties of the family mappers (SpecMapper) *)

\* a call of mapear_cadunico_familia has returned a table
FamiliaMapeada ==
    /\ pc = "mapped"
    /\ df_mapped.via = "mapear_cadunico_familia"
    /\ df_mapped.status = "ok"

\* C12: for a family-layout table without the water-access column the family
\* mapper raises nothing, and acesso_agua is 0 (never null) in every row.
C12_WaterDefault ==
    ( /\ pc = "mapped"
      /\ df_mapped.via = "mapear_cadunico_familia"
      /\ TipoDaTabela(df_original) = "cadunico_familia"
      /\ "cod_abaste_agua_domic_fam" \notin df_original.cols ) =>
        /\ df_mapped.status = "ok"
        /\ \A i \in DOMAIN df_mapped.tabela.rows :
              df_mapped.tabela.rows[i]["acesso_agua"] = 0

\* C15: after the mapping and its filling of missing values, every household
\* has qtd_pessoas_familia >= 1 and renda_per_capita >= 0, whatever the raw
\* row (a raw size of 0 or a missing size included).
C15_SizeAndIncome ==
    (pc = "mapped" /\ df_mapped.status = "ok") =>
        \A i \in DOMAIN df_mapped.tabela.rows :
            LET m == df_mapped.tabela.rows[i]
            IN  /\ m["qtd_pessoas_familia"] >= 1
                /\ m["renda_per_capita"].t # "nan"
                /\ m["renda_per_capita"].v >= 0

\* C18: the family mapper applies its lookup tables to every row: water is 1
\* only for code 1; sewage is 1 exactly for codes 1 and 2; the material code
\* falls on a scale of three levels (finished masonry 2, unfinished masonry
\* and wood 1, straw and other 0); the benefit flag is the raw flag as 0/1.
C18_LookupTables ==
    FamiliaMapeada =>
        \A i \in DOMAIN df_mapped.tabela.rows :
            LET r == df_original.rows[i]
                m == df_mapped.tabela.rows[i]
            IN  /\ m["acesso_agua"] = (IF r["cod_abaste_agua_domic_fam"] = Fin(1) THEN 1 ELSE 0)
                /\ m["acesso_esgoto"] =
                      (IF r["cod_escoa_sanitario_domic_fam"] \in {Fin(1), Fin(2)} THEN 1 ELSE 0)
                /\ m["tipo_moradia"] \in {0, 1, 2}
                /\ r["cod_material_domic_fam"] = Fin(1) => m["tipo_moradia"] = 2
                /\ r["cod_material_domic_fam"] \in {Fin(2), Fin(3)} => m["tipo_moradia"] = 1
                /\ r["cod_material_domic_fam"] \in {Fin(7), Fin(8)} => m["tipo_moradia"] = 0
                /\ m["recebe_bolsa_familia"] = (IF r["marc_pbf"] = Fin(1) THEN 1 ELSE 0)

\* a mapped table with a septic tank (code 2), a water code other than 1 and a
\* straw or other-material dwelling
C18_Witness ==
    /\ FamiliaMapeada
    /\ \E i \in DOMAIN df_original.rows :
          /\ df_original.rows[i]["cod_escoa_sanitario_domic_fam"] = Fin(2)
          /\ df_mapped.tabela.rows[i]["acesso_esgoto"] = 1
          /\ df_original.rows[i]["cod_abaste_agua_domic_fam"] = Fin(2)
          /\ df_mapped.tabela.rows[i]["acesso_agua"] = 0
    /\ \E i \in DOMAIN df_original.rows :
          /\ df_original.rows[i]["cod_material_domic_fam"] \in {Fin(7), Fin(8)}
          /\ df_mapped.tabela.rows[i]["tipo_moradia"] = 0
          /\ df_original.rows[i]["marc_pbf"] = Fin(1)
          /\ df_mapped.tabela.rows[i]["recebe_bolsa_familia"] = 1

\* C19: a column that a code path fills because the file has none gets the
\* same documented default in every row, whichever path fills it: idade 35,
\* sexo F, escolaridade 2, situacao_trabalho 0, possui_deficiencia 0, and 0
\* for water, sewage and cash transfer.
C19_SameDefaults ==
    (pc = "mapped" /\ df_mapped.status = "ok") =>
        LET doc == [idade |-> 35, sexo |-> "F", escolaridade |-> 2,
                    situacao_trabalho |-> 0, possui_deficiencia |-> 0,
                    acesso_agua |-> 0, acesso_esgoto |-> 0,
                    recebe_bolsa_familia |-> 0]
        IN  \A i \in DOMAIN df_mapped.tabela.rows :
            \A c \in df_mapped.padrao \cap DOMAIN doc :
                df_mapped.tabela.rows[i][c] = doc[c]

-----------------------------------------------------------------------------
(* Properties of the joins and of the chunked processing (SpecAdaptador) *)

\* the batch statistics of the finite per-capita incomes of a scored table
LoteFinitos(t) == {i \in DOMAIN t.rows : IsFinite(t.rows[i]["renda_per_capita"])}
LoteSoma(t) ==
    SumSeq([i \in DOMAIN t.rows |->
               IF i \in LoteFinitos(t) THEN t.rows[i]["renda_per_capita"].v ELSE 0])
LoteDesvio(t, i) ==
    Cardinality(LoteFinitos(t)) * t.rows[i]["renda_per_capita"].v - LoteSoma(t)
LoteQuadrados(t) ==
    SumSeq([i \in DOMAIN t.rows |->
               IF i \in LoteFinitos(t) THEN LoteDesvio(t, i) * LoteDesvio(t, i) ELSE 0])

\* the normalised income of every row of t is its z-score against the mean and
\* the standard deviation (ddof = 1) of the rows of t itself, to the
\* fixed-point resolution; it is null when t has no such deviation
ZRelativoAoLote(t) ==
    \A i \in DOMAIN t.rows :
        LET x == t.rows[i]["renda_per_capita_norm"]
            m == Cardinality(LoteFinitos(t))
        IN  IF m = Len(t.rows) /\ m >= 2 /\ LoteQuadrados(t) > 0
            THEN /\ IsFinite(x)
                 /\ LET a == IF x.v < 0 THEN -x.v ELSE x.v
                        num == ZScale * ZScale * LoteDesvio(t, i) * LoteDesvio(t, i) * (m - 1)
                    IN  /\ (LoteDesvio(t, i) < 0 => x.v <= 0)
                        /\ (LoteDesvio(t, i) > 0 => x.v >= 0)
                        /\ a * a * LoteQuadrados(t) <= num
                        /\ num < (a + 1) * (a + 1) * LoteQuadrados(t)
            ELSE IsNull(x)

\* the rows of a table that hold household h in column c
LinhasDaFamilia(t, c, h) == {n \in DOMAIN t.rows : t.rows[n][c] = h}

\* C14: the tier is relative to the batch: the income of a household is
\* z-scored with the mean and deviation of the batch it is processed in, a
\* chunk or the whole file, so one household can get different tiers in two
\* batches, and chunked processing can differ from processing at once.
C14_BatchRelativeTier ==
    (pc = "chunks") =>
        /\ ZRelativoAoLote(df_final)
        /\ \A c \in DOMAIN df_chunks : ZRelativoAoLote(df_chunks[c])

\* a household scored once in a chunk of several rows and once in the whole
\* file, with two different tiers
C14_Witness ==
    /\ pc = "chunks"
    /\ pos = Len(df_fam.rows)
    /\ \E c \in DOMAIN df_chunks :
       \E i \in DOMAIN df_chunks[c].rows : \E j \in DOMAIN df_final.rows :
          LET h == df_chunks[c].rows[i]["id_familia"]
          IN  /\ Len(df_chunks[c].rows) >= 2
              /\ df_final.rows[j]["id_familia"] = h
              /\ LinhasDaFamilia(df_chunks[c], "id_familia", h) = {i}
              /\ LinhasDaFamilia(df_final, "id_familia", h) = {j}
              /\ \A k \in DOMAIN df_final.rows[j] \ {"renda_per_capita_norm",
                        "score_vulnerabilidade", "nivel_vulnerabilidade"} :
                    df_final.rows[j][k] = df_chunks[c].rows[i][k]
              /\ df_chunks[c].rows[i]["nivel_vulnerabilidade"] \in Niveis
              /\ df_final.rows[j]["nivel_vulnerabilidade"] \in Niveis
              /\ df_chunks[c].rows[i]["nivel_vulnerabilidade"]
                    # df_final.rows[j]["nivel_vulnerabilidade"]

\* the rows of the person file flagged as reference person of household h
ReferenciasDe(h) ==
    {j \in DOMAIN df_pes.rows :
        /\ df_pes.rows[j]["id_familia"] = h
        /\ df_pes.rows[j]["cod_parentesco_rf_pessoa"] = Fin(1)}

\* C16: a household with several rows flagged as reference person takes its
\* respondent from the first of them by row order, so that the join gives
\* exactly one row per household.
C16_FirstReferenceWins ==
    (pc = "joined") =>
        \A f \in DOMAIN df_fam.rows :
            LET h == df_fam.rows[f]["id_familia"]
                ls == LinhasDaFamilia(df_juncao.tabela, df_juncao.chave, h)
            IN  ReferenciasDe(h) # {} =>
                /\ Cardinality(ls) = 1
                /\ df_juncao.via = "juntar_dados" =>
                      LET p == CHOOSE j \in ReferenciasDe(h) : \A o \in ReferenciasDe(h) : j <= o
                      IN  \A n \in ls :
                            df_juncao.tabela.rows[n]["idade"]
                               = FillNaCell(df_pes.rows[p]["idade"], 0)

\* C17: a household without any row flagged as reference person is dropped by
\* the join of families and respondents: no row of the output holds it.
C17_NoReferenceDropped ==
    (pc = "joined") =>
        \A f \in DOMAIN df_fam.rows :
            LET h == df_fam.rows[f]["id_familia"]
            IN  ReferenciasDe(h) = {} =>
                    LinhasDaFamilia(df_juncao.tabela, df_juncao.chave, h) = {}

-----------------------------------------------------------------------------
(* Properties of ModeloVulnerabilidade (SpecModelo) *)

\* C24: a model object predicts only after it was trained or loaded: predizer
\* and predizer_probabilidade raise ValueError whenever self.modelo is None,
\* and once treinar or carregar_modelo has completed on the object they do not
\* raise that error any more.
C24_UsableAfterTrainOrLoad ==
    (resposta.op \in {"predizer", "predizer_probabilidade"}) =>
        LET o == resposta.obj
            naoTreinado == "ValueError: Modelo não foi treinado ainda"
        IN  /\ modelo[o] = "None" => resposta.res = naoTreinado
            /\ concluiu[o] => resposta.res # naoTreinado

-----------------------------------------------------------------------------
(* Properties of the output file of the chunked processing (SpecAdaptador) *)

\* total_processado: the rows of the chunks processed so far
TotalProcessado == SumSeq([c \in DOMAIN df_chunks |-> Len(df_chunks[c].rows)])

\* C25: the chunked processing writes the header exactly once, as the first
\* line of the output: the first chunk overwrites the file and carries the
\* header, every later chunk is appended without one, and after the last chunk
\* the file has as many data rows as the chunks had rows in total.
C25_HeaderOnce ==
    (pc = "chunks" /\ pos > 0) =>
        /\ Len(saida) = 1 + TotalProcessado
        /\ saida[1].header
        /\ saida[1].cols = df_chunks[1].cols
        /\ \A i \in 2..Len(saida) : ~saida[i].header
        /\ \A c \in DOMAIN df_chunks : \A i \in DOMAIN df_chunks[c].rows :
              saida[1 + SumSeq([b \in 1..(c - 1) |-> Len(df_chunks[b].rows)]) + i].row
                 = df_chunks[c].rows[i]

\* C25 witness: the last of several chunks was appended to a first chunk
\* that had rows too
C25_Witness ==
    /\ pc = "chunks"
    /\ pos = Len(df_fam.rows)
    /\ Len(df_chunks) >= 2
    /\ \A c \in DOMAIN df_chunks : Len(df_chunks[c].rows) >= 1
    /\ Len(saida) = 1 + TotalProcessado
    /\ saida[1].header

-----------------------------------------------------------------------------
(* Properties of the mapper followed by the deriver (SpecMapper) *)

\* C26: every household that went through a schema mapper and then the
\* feature deriver has superlotacao = (qtd_pessoas_familia > 5), households
\* mapped from a family-layout file by mapear_cadunico_familia included.
C26_OvercrowdingBySize ==
    (pc = "derived") =>
        \A i \in DOMAIN df_features.rows :
            df_features.rows[i]["superlotacao"]
               = IF df_features.rows[i]["qtd_pessoas_familia"] > 5 THEN 1 ELSE 0

\* C27: the chunked processing loses no eligible household: every household of
\* the family file that has a row flagged as reference person anywhere in the
\* person file is in the output of processar_completo_chunks, whichever chunk
\* it falls in.
C27_NoHouseholdLost ==
    (pc = "chunks" /\ pos = Len(df_fam.rows)) =>
        \A f \in DOMAIN df_fam.rows :
            LET h == df_fam.rows[f]["id_familia"]
            IN  ReferenciasDe(h) # {} =>
                    \E n \in DOMAIN saida : ~saida[n].header /\ saida[n].row["id_familia"] = h

\* C28: the family-layout mappers agree on the sewage flag: for every raw
\* sewage-disposal code of a mapped file, the acesso_esgoto written by
\* mapear_cadunico_familia or converter_arquivo_familias is the value that
\* transformar_esgoto and converter_e_mesclar_familias_pessoas give the same
\* code, the septic tank (code 2) included.
C28_SewageAgreement ==
    (/\ pc = "mapped"
     /\ df_mapped.status = "ok"
     /\ df_mapped.via \in {"mapear_cadunico_familia", "converter_arquivo_familias"}) =>
        \A i \in DOMAIN df_mapped.tabela.rows :
            LET x == df_original.rows[i]["cod_escoa_sanitario_domic_fam"]
                m == df_mapped.tabela.rows[i]["acesso_esgoto"]
            IN  /\ m = AcessoEsgotoFamilia(x)
                /\ m = TransformarEsgoto(x)
                /\ m = AcessoEsgotoConversor(x)
                /\ m = AcessoEsgotoMesclado(x)

-----------------------------------------------------------------------------
(* Properties of the API (SpecApi) *)

\* C29: /predict and /analyze translate every class that a model trained on
\* the four-tier target can predict (0, 1, 2, 3) into a tier label and a
\* successful response; no predictable class leads to an error response.
C29_EveryClassLabelled ==
    (/\ iniciado = "ok"
     /\ api_resposta.endpoint \in {"/predict", "/analyze"}
     /\ api_resposta.pred_rf \in ClassesAlvo
     /\ api_resposta.pred_xgb \in ClassesAlvo) =>
        /\ api_resposta.status = 200
        /\ api_resposta.rf_label \in Niveis
        /\ api_resposta.xgb_label \in Niveis

\* C30: a request that finds rf_model or xgb_model None is answered 503 by
\* /predict, /analyze, /predict-batch, /stats and /data/process without any
\* model being called; /data/analyze-municipality and /data/analyze-governo
\* answer 503 also when meta_classificador is None; and no handler reads an
\* attribute of a global that is None.
C30_UnloadedAnswers503 ==
    LET r == api_resposta
        g == api_resposta.modelos
    IN  /\ (/\ r.endpoint \in {"/predict", "/analyze", "/predict-batch", "/stats",
                              "/data/process/"}
            /\ (g.rf_model = "None" \/ g.xgb_model = "None")) =>
               (r.status = 503 /\ r.chamados = {})
        /\ (/\ r.endpoint \in {"/data/analyze-municipality", "/data/analyze-governo"}
            /\ (\/ g.rf_model = "None" \/ g.xgb_model = "None"
                \/ g.meta_classificador = "None")) =>
               (r.status = 503 /\ r.chamados = {})
        /\ \A m \in r.chamados : g[m] # "None"

\* startup found the Random Forest file only, and /predict answered 503
C30_Witness ==
    /\ iniciado = "ok"
    /\ api_resposta.endpoint = "/predict"
    /\ api_resposta.modelos.rf_model = "loaded"
    /\ api_resposta.modelos.xgb_model = "None"
    /\ api_resposta.status = 503
    /\ api_resposta.chamados = {}

=============================================================================
